---------------------------- MODULE Spec2Model ----------------------------
(***************************************************************************)
(* A model of staking_rates.py: the numeric normalizer, the field          *)
(* resolver, the eight provider adapters, the aggregation loop             *)
(* collect_rates and the low-risk filter.                                  *)
(*                                                                         *)
(* A string is the sequence of its code points (Python's ord): "usd" is    *)
(* <<117, 115, 100>>, written S(<<"u", "s", "d">>).                        *)
(*                                                                         *)
(* A Python float is [nan, inf, sign, digits, exp]: nan, -inf or inf       *)
(* (inf = -1 or 1), or the finite number sign * 0.d1d2...dk * 10^exp with  *)
(* digits = <<d1, ..., dk>>, d1 and dk not 0; zero has no digits and       *)
(* keeps its sign.  A finite float is held as the decimal that Python      *)
(* prints for it, the shortest one that converts back to the same double:  *)
(* float() and the product by 100 round to the nearest double (ties to     *)
(* even, overflow to inf, underflow through the subnormals to zero).       *)
(*                                                                         *)
(* Decoded JSON values are records [t |-> tag, v |-> content]:             *)
(*   "null"    None                                                        *)
(*   "bool"    True (v = 1) or False (v = 0)                               *)
(*   "int"     an int, v its value                                         *)
(*   "huge"    the int 10**HugeZeros, beyond the range of a float          *)
(*   "float"   a float, v the float (nan and the infinities included)      *)
(*   "str"     a string, v its code points                                 *)
(*   "dict"    v a sequence of [k, val] pairs in insertion order, the      *)
(*             keys k distinct strings                                     *)
(*   "list"    v a sequence of values                                      *)
(***************************************************************************)
EXTENDS Integers, Sequences, FiniteSets

VARIABLES
    nzArg,      \* _normalize_percentage: the argument of the last call
    nzRes,      \* _normalize_percentage: how the last call ended
    pfMap,      \* _pick_first: the mapping of the last call
    pfKeys,     \* _pick_first: the key list of the last call
    pfRes,      \* _pick_first: how the last call ended
    adProv,     \* adapters: the provider key of the last adapter run
    adResp,     \* adapters: the HTTP response that run received
    adOut,      \* adapters: the records it yielded and the exception it raised
    pc,         \* collect_rates: "loop" | "done"
    idx,        \* collect_rates: position in PROVIDERS of the next provider
    records,    \* collect_rates: the local list `records`
    calls,      \* collect_rates: the provider keys invoked so far, in order
    outcomes,   \* collect_rates: per invoked provider, what its adapter did
    stderr,     \* collect_rates: the provider keys reported to sys.stderr
    flGiven,    \* filter_low_risk: the list as the caller passed it
    flArg,      \* filter_low_risk: that list object, as it is after the call
    flOut,      \* filter_low_risk: the returned list
    flState     \* filter_low_risk: "ready" | "filtered" | "refiltered"

vars == <<nzArg, nzRes, pfMap, pfKeys, pfRes, adProv, adResp, adOut,
          pc, idx, records, calls, outcomes, stderr, flGiven, flArg, flOut, flState>>

nzVars == <<nzArg, nzRes>>
pfVars == <<pfMap, pfKeys, pfRes>>
adVars == <<adProv, adResp, adOut>>
clVars == <<pc, idx, records, calls, outcomes, stderr>>
flVars == <<flGiven, flArg, flOut, flState>>

(***************************************************************************)
(* Bounds of the model.                                                    *)
(***************************************************************************)
\* The numbers drawn as inputs are the multiples of 1/Scale.
Scale == 4
\* Raw numbers range over -MaxNum/Scale .. MaxNum/Scale.
MaxNum == 24
\* The longest key list handed to _pick_first.
MaxKeys == 2
\* The most entries in a provider's container.
MaxEntries == 2
\* The longest record list handed to filter_low_risk.
MaxRecs == 3

(***************************************************************************)
(* Decoded JSON values.                                                    *)
(***************************************************************************)
JNull == [t |-> "null", v |-> 0]
JBool(b) == [t |-> "bool", v |-> IF b THEN 1 ELSE 0]
JInt(k) == [t |-> "int", v |-> k]
JNum(f) == [t |-> "float", v |-> f]
JHuge == [t |-> "huge", v |-> 0]
JStr(chars) == [t |-> "str", v |-> chars]
JDict(pairs) == [t |-> "dict", v |-> pairs]
JList(items) == [t |-> "list", v |-> items]

\* line 148: value *= 100
Hundred == 100

\* The sequences of seqs, one after the other.
RECURSIVE Concat(_)
Concat(seqs) ==
    IF seqs = <<>> THEN <<>>
    ELSE IF Len(seqs) = 1 THEN seqs[1]
    ELSE Concat(SubSeq(seqs, 1, Len(seqs) \div 2))
         \o Concat(SubSeq(seqs, Len(seqs) \div 2 + 1, Len(seqs)))

(***************************************************************************)
(* Strings.  AsciiChars lists the printable ASCII characters in code       *)
(* order, from the space (code point 32) to the tilde (126); the grave     *)
(* accent (96), which a TLA+ string cannot hold, is spelled "grave".       *)
(***************************************************************************)
AsciiChars ==
    <<" ", "!", "\"", "#", "$", "%", "&", "'", "(", ")", "*", "+", ",", "-",
      ".", "/", "0", "1", "2", "3", "4", "5", "6", "7", "8", "9", ":", ";",
      "<", "=", ">", "?", "@", "A", "B", "C", "D", "E", "F", "G", "H", "I",
      "J", "K", "L", "M", "N", "O", "P", "Q", "R", "S", "T", "U", "V", "W",
      "X", "Y", "Z", "[", "\\", "]", "^", "_", "grave", "a", "b", "c", "d", "e",
      "f", "g", "h", "i", "j", "k", "l", "m", "n", "o", "p", "q", "r", "s",
      "t", "u", "v", "w", "x", "y", "z", "{", "|", "}", "~">>
\* ord(c)
Ord ==
    [c \in {AsciiChars[i] : i \in 1..Len(AsciiChars)} |->
        (CHOOSE i \in 1..Len(AsciiChars) : AsciiChars[i] = c) + 31]

\* The string with the given characters.
S(text) == [i \in 1..Len(text) |-> Ord[text[i]]]

\* needle in haystack
StrContains(haystack, needle) ==
    \E i \in 0..(Len(haystack) - Len(needle)) :
        SubSeq(haystack, i + 1, i + Len(needle)) = needle

(***************************************************************************)
(* The Unicode character database of the interpreter (Unicode 14), as      *)
(* ranges <<first, last>> of code points and case-mapping runs             *)
(* <<first, last, step, delta>>: every step-th code point of the run maps  *)
(* to itself plus delta.  The characters whose mapping is not one          *)
(* character at a fixed distance are listed one by one with their images.  *)
(***************************************************************************)
\* The characters float() ignores around a number: the ASCII blanks and
\* the Unicode spaces and line separators.
Whitespace ==
    {
      9, 10, 11, 12, 13, 32, 133, 160, 5760, 8192, 8193, 8194, 8195, 8196,
      8197, 8198, 8199, 8200, 8201, 8202, 8232, 8233, 8239, 8287, 12288
    }

\* The zero of every run of ten decimal digits (Unicode category Nd).
DigitZeros ==
    {
      48, 1632, 1776, 1984, 2406, 2534, 2662, 2790, 2918, 3046, 3174, 3302,
      3430, 3558, 3664, 3792, 3872, 4160, 4240, 6112, 6160, 6470, 6608, 6784,
      6800, 6992, 7088, 7232, 7248, 42528, 43216, 43264, 43472, 43504, 43600,
      44016, 65296, 66720, 68912, 69734, 69872, 69942, 70096, 70384, 70736,
      70864, 71248, 71360, 71472, 71904, 72016, 72784, 73040, 73120, 92768,
      92864, 93008, 120782, 120792, 120802, 120812, 120822, 123200, 123632,
      125264, 130032
    }

\* Characters with a case: category Lu, Ll or Lt, or property
\* Other_Uppercase or Other_Lowercase.
CasedRanges ==
    {
      <<65, 90>>, <<97, 122>>, <<170, 170>>, <<181, 181>>, <<186, 186>>,
      <<192, 214>>, <<216, 246>>, <<248, 442>>, <<444, 447>>, <<452, 659>>,
      <<661, 696>>, <<704, 705>>, <<736, 740>>, <<837, 837>>, <<880, 883>>,
      <<886, 887>>, <<890, 893>>, <<895, 895>>, <<902, 902>>, <<904, 906>>,
      <<908, 908>>, <<910, 929>>, <<931, 1013>>, <<1015, 1153>>,
      <<1162, 1327>>, <<1329, 1366>>, <<1376, 1416>>, <<4256, 4293>>,
      <<4295, 4295>>, <<4301, 4301>>, <<4304, 4346>>, <<4349, 4351>>,
      <<5024, 5109>>, <<5112, 5117>>, <<7296, 7304>>, <<7312, 7354>>,
      <<7357, 7359>>, <<7424, 7615>>, <<7680, 7957>>, <<7960, 7965>>,
      <<7968, 8005>>, <<8008, 8013>>, <<8016, 8023>>, <<8025, 8025>>,
      <<8027, 8027>>, <<8029, 8029>>, <<8031, 8061>>, <<8064, 8116>>,
      <<8118, 8124>>, <<8126, 8126>>, <<8130, 8132>>, <<8134, 8140>>,
      <<8144, 8147>>, <<8150, 8155>>, <<8160, 8172>>, <<8178, 8180>>,
      <<8182, 8188>>, <<8305, 8305>>, <<8319, 8319>>, <<8336, 8348>>,
      <<8450, 8450>>, <<8455, 8455>>, <<8458, 8467>>, <<8469, 8469>>,
      <<8473, 8477>>, <<8484, 8484>>, <<8486, 8486>>, <<8488, 8488>>,
      <<8490, 8493>>, <<8495, 8500>>, <<8505, 8505>>, <<8508, 8511>>,
      <<8517, 8521>>, <<8526, 8526>>, <<8544, 8575>>, <<8579, 8580>>,
      <<9398, 9449>>, <<11264, 11492>>, <<11499, 11502>>, <<11506, 11507>>,
      <<11520, 11557>>, <<11559, 11559>>, <<11565, 11565>>, <<42560, 42605>>,
      <<42624, 42653>>, <<42786, 42887>>, <<42891, 42894>>, <<42896, 42954>>,
      <<42960, 42961>>, <<42963, 42963>>, <<42965, 42969>>, <<42997, 42998>>,
      <<43000, 43002>>, <<43824, 43866>>, <<43868, 43880>>, <<43888, 43967>>,
      <<64256, 64262>>, <<64275, 64279>>, <<65313, 65338>>, <<65345, 65370>>,
      <<66560, 66639>>, <<66736, 66771>>, <<66776, 66811>>, <<66928, 66938>>,
      <<66940, 66954>>, <<66956, 66962>>, <<66964, 66965>>, <<66967, 66977>>,
      <<66979, 66993>>, <<66995, 67001>>, <<67003, 67004>>, <<67456, 67456>>,
      <<67459, 67461>>, <<67463, 67504>>, <<67506, 67514>>, <<68736, 68786>>,
      <<68800, 68850>>, <<71840, 71903>>, <<93760, 93823>>,
      <<119808, 119892>>, <<119894, 119964>>, <<119966, 119967>>,
      <<119970, 119970>>, <<119973, 119974>>, <<119977, 119980>>,
      <<119982, 119993>>, <<119995, 119995>>, <<119997, 120003>>,
      <<120005, 120069>>, <<120071, 120074>>, <<120077, 120084>>,
      <<120086, 120092>>, <<120094, 120121>>, <<120123, 120126>>,
      <<120128, 120132>>, <<120134, 120134>>, <<120138, 120144>>,
      <<120146, 120485>>, <<120488, 120512>>, <<120514, 120538>>,
      <<120540, 120570>>, <<120572, 120596>>, <<120598, 120628>>,
      <<120630, 120654>>, <<120656, 120686>>, <<120688, 120712>>,
      <<120714, 120744>>, <<120746, 120770>>, <<120772, 120779>>,
      <<122624, 122633>>, <<122635, 122654>>, <<125184, 125251>>,
      <<127280, 127305>>, <<127312, 127337>>, <<127344, 127369>>
    }

\* Characters that are transparent to the word-final rule of the sigma:
\* categories Mn, Me, Cf, Lm and Sk, and the word-internal punctuation.
CaseIgnorableRanges ==
    {
      <<39, 39>>, <<46, 46>>, <<58, 58>>, <<94, 94>>, <<96, 96>>,
      <<168, 168>>, <<173, 173>>, <<175, 175>>, <<180, 180>>, <<183, 184>>,
      <<688, 879>>, <<884, 885>>, <<890, 890>>, <<900, 901>>, <<903, 903>>,
      <<1155, 1161>>, <<1369, 1369>>, <<1375, 1375>>, <<1425, 1469>>,
      <<1471, 1471>>, <<1473, 1474>>, <<1476, 1477>>, <<1479, 1479>>,
      <<1524, 1524>>, <<1536, 1541>>, <<1552, 1562>>, <<1564, 1564>>,
      <<1600, 1600>>, <<1611, 1631>>, <<1648, 1648>>, <<1750, 1757>>,
      <<1759, 1768>>, <<1770, 1773>>, <<1807, 1807>>, <<1809, 1809>>,
      <<1840, 1866>>, <<1958, 1968>>, <<2027, 2037>>, <<2042, 2042>>,
      <<2045, 2045>>, <<2070, 2093>>, <<2137, 2139>>, <<2184, 2184>>,
      <<2192, 2193>>, <<2200, 2207>>, <<2249, 2306>>, <<2362, 2362>>,
      <<2364, 2364>>, <<2369, 2376>>, <<2381, 2381>>, <<2385, 2391>>,
      <<2402, 2403>>, <<2417, 2417>>, <<2433, 2433>>, <<2492, 2492>>,
      <<2497, 2500>>, <<2509, 2509>>, <<2530, 2531>>, <<2558, 2558>>,
      <<2561, 2562>>, <<2620, 2620>>, <<2625, 2626>>, <<2631, 2632>>,
      <<2635, 2637>>, <<2641, 2641>>, <<2672, 2673>>, <<2677, 2677>>,
      <<2689, 2690>>, <<2748, 2748>>, <<2753, 2757>>, <<2759, 2760>>,
      <<2765, 2765>>, <<2786, 2787>>, <<2810, 2815>>, <<2817, 2817>>,
      <<2876, 2876>>, <<2879, 2879>>, <<2881, 2884>>, <<2893, 2893>>,
      <<2901, 2902>>, <<2914, 2915>>, <<2946, 2946>>, <<3008, 3008>>,
      <<3021, 3021>>, <<3072, 3072>>, <<3076, 3076>>, <<3132, 3132>>,
      <<3134, 3136>>, <<3142, 3144>>, <<3146, 3149>>, <<3157, 3158>>,
      <<3170, 3171>>, <<3201, 3201>>, <<3260, 3260>>, <<3263, 3263>>,
      <<3270, 3270>>, <<3276, 3277>>, <<3298, 3299>>, <<3328, 3329>>,
      <<3387, 3388>>, <<3393, 3396>>, <<3405, 3405>>, <<3426, 3427>>,
      <<3457, 3457>>, <<3530, 3530>>, <<3538, 3540>>, <<3542, 3542>>,
      <<3633, 3633>>, <<3636, 3642>>, <<3654, 3662>>, <<3761, 3761>>,
      <<3764, 3772>>, <<3782, 3782>>, <<3784, 3789>>, <<3864, 3865>>,
      <<3893, 3893>>, <<3895, 3895>>, <<3897, 3897>>, <<3953, 3966>>,
      <<3968, 3972>>, <<3974, 3975>>, <<3981, 3991>>, <<3993, 4028>>,
      <<4038, 4038>>, <<4141, 4144>>, <<4146, 4151>>, <<4153, 4154>>,
      <<4157, 4158>>, <<4184, 4185>>, <<4190, 4192>>, <<4209, 4212>>,
      <<4226, 4226>>, <<4229, 4230>>, <<4237, 4237>>, <<4253, 4253>>,
      <<4348, 4348>>, <<4957, 4959>>, <<5906, 5908>>, <<5938, 5939>>,
      <<5970, 5971>>, <<6002, 6003>>, <<6068, 6069>>, <<6071, 6077>>,
      <<6086, 6086>>, <<6089, 6099>>, <<6103, 6103>>, <<6109, 6109>>,
      <<6155, 6159>>, <<6211, 6211>>, <<6277, 6278>>, <<6313, 6313>>,
      <<6432, 6434>>, <<6439, 6440>>, <<6450, 6450>>, <<6457, 6459>>,
      <<6679, 6680>>, <<6683, 6683>>, <<6742, 6742>>, <<6744, 6750>>,
      <<6752, 6752>>, <<6754, 6754>>, <<6757, 6764>>, <<6771, 6780>>,
      <<6783, 6783>>, <<6823, 6823>>, <<6832, 6862>>, <<6912, 6915>>,
      <<6964, 6964>>, <<6966, 6970>>, <<6972, 6972>>, <<6978, 6978>>,
      <<7019, 7027>>, <<7040, 7041>>, <<7074, 7077>>, <<7080, 7081>>,
      <<7083, 7085>>, <<7142, 7142>>, <<7144, 7145>>, <<7149, 7149>>,
      <<7151, 7153>>, <<7212, 7219>>, <<7222, 7223>>, <<7288, 7293>>,
      <<7376, 7378>>, <<7380, 7392>>, <<7394, 7400>>, <<7405, 7405>>,
      <<7412, 7412>>, <<7416, 7417>>, <<7468, 7530>>, <<7544, 7544>>,
      <<7579, 7679>>, <<8125, 8125>>, <<8127, 8129>>, <<8141, 8143>>,
      <<8157, 8159>>, <<8173, 8175>>, <<8189, 8190>>, <<8203, 8207>>,
      <<8216, 8217>>, <<8228, 8228>>, <<8231, 8231>>, <<8234, 8238>>,
      <<8288, 8292>>, <<8294, 8303>>, <<8305, 8305>>, <<8319, 8319>>,
      <<8336, 8348>>, <<8400, 8432>>, <<11388, 11389>>, <<11503, 11505>>,
      <<11631, 11631>>, <<11647, 11647>>, <<11744, 11775>>, <<11823, 11823>>,
      <<12293, 12293>>, <<12330, 12333>>, <<12337, 12341>>, <<12347, 12347>>,
      <<12441, 12446>>, <<12540, 12542>>, <<40981, 40981>>, <<42232, 42237>>,
      <<42508, 42508>>, <<42607, 42610>>, <<42612, 42621>>, <<42623, 42623>>,
      <<42652, 42655>>, <<42736, 42737>>, <<42752, 42785>>, <<42864, 42864>>,
      <<42888, 42890>>, <<42994, 42996>>, <<43000, 43001>>, <<43010, 43010>>,
      <<43014, 43014>>, <<43019, 43019>>, <<43045, 43046>>, <<43052, 43052>>,
      <<43204, 43205>>, <<43232, 43249>>, <<43263, 43263>>, <<43302, 43309>>,
      <<43335, 43345>>, <<43392, 43394>>, <<43443, 43443>>, <<43446, 43449>>,
      <<43452, 43453>>, <<43471, 43471>>, <<43493, 43494>>, <<43561, 43566>>,
      <<43569, 43570>>, <<43573, 43574>>, <<43587, 43587>>, <<43596, 43596>>,
      <<43632, 43632>>, <<43644, 43644>>, <<43696, 43696>>, <<43698, 43700>>,
      <<43703, 43704>>, <<43710, 43711>>, <<43713, 43713>>, <<43741, 43741>>,
      <<43756, 43757>>, <<43763, 43764>>, <<43766, 43766>>, <<43867, 43871>>,
      <<43881, 43883>>, <<44005, 44005>>, <<44008, 44008>>, <<44013, 44013>>,
      <<64286, 64286>>, <<64434, 64450>>, <<65024, 65039>>, <<65043, 65043>>,
      <<65056, 65071>>, <<65106, 65106>>, <<65109, 65109>>, <<65279, 65279>>,
      <<65287, 65287>>, <<65294, 65294>>, <<65306, 65306>>, <<65342, 65342>>,
      <<65344, 65344>>, <<65392, 65392>>, <<65438, 65439>>, <<65507, 65507>>,
      <<65529, 65531>>, <<66045, 66045>>, <<66272, 66272>>, <<66422, 66426>>,
      <<67456, 67461>>, <<67463, 67504>>, <<67506, 67514>>, <<68097, 68099>>,
      <<68101, 68102>>, <<68108, 68111>>, <<68152, 68154>>, <<68159, 68159>>,
      <<68325, 68326>>, <<68900, 68903>>, <<69291, 69292>>, <<69446, 69456>>,
      <<69506, 69509>>, <<69633, 69633>>, <<69688, 69702>>, <<69744, 69744>>,
      <<69747, 69748>>, <<69759, 69761>>, <<69811, 69814>>, <<69817, 69818>>,
      <<69821, 69821>>, <<69826, 69826>>, <<69837, 69837>>, <<69888, 69890>>,
      <<69927, 69931>>, <<69933, 69940>>, <<70003, 70003>>, <<70016, 70017>>,
      <<70070, 70078>>, <<70089, 70092>>, <<70095, 70095>>, <<70191, 70193>>,
      <<70196, 70196>>, <<70198, 70199>>, <<70206, 70206>>, <<70367, 70367>>,
      <<70371, 70378>>, <<70400, 70401>>, <<70459, 70460>>, <<70464, 70464>>,
      <<70502, 70508>>, <<70512, 70516>>, <<70712, 70719>>, <<70722, 70724>>,
      <<70726, 70726>>, <<70750, 70750>>, <<70835, 70840>>, <<70842, 70842>>,
      <<70847, 70848>>, <<70850, 70851>>, <<71090, 71093>>, <<71100, 71101>>,
      <<71103, 71104>>, <<71132, 71133>>, <<71219, 71226>>, <<71229, 71229>>,
      <<71231, 71232>>, <<71339, 71339>>, <<71341, 71341>>, <<71344, 71349>>,
      <<71351, 71351>>, <<71453, 71455>>, <<71458, 71461>>, <<71463, 71467>>,
      <<71727, 71735>>, <<71737, 71738>>, <<71995, 71996>>, <<71998, 71998>>,
      <<72003, 72003>>, <<72148, 72151>>, <<72154, 72155>>, <<72160, 72160>>,
      <<72193, 72202>>, <<72243, 72248>>, <<72251, 72254>>, <<72263, 72263>>,
      <<72273, 72278>>, <<72281, 72283>>, <<72330, 72342>>, <<72344, 72345>>,
      <<72752, 72758>>, <<72760, 72765>>, <<72767, 72767>>, <<72850, 72871>>,
      <<72874, 72880>>, <<72882, 72883>>, <<72885, 72886>>, <<73009, 73014>>,
      <<73018, 73018>>, <<73020, 73021>>, <<73023, 73029>>, <<73031, 73031>>,
      <<73104, 73105>>, <<73109, 73109>>, <<73111, 73111>>, <<73459, 73460>>,
      <<78896, 78904>>, <<92912, 92916>>, <<92976, 92982>>, <<92992, 92995>>,
      <<94031, 94031>>, <<94095, 94111>>, <<94176, 94177>>, <<94179, 94180>>,
      <<110576, 110579>>, <<110581, 110587>>, <<110589, 110590>>,
      <<113821, 113822>>, <<113824, 113827>>, <<118528, 118573>>,
      <<118576, 118598>>, <<119143, 119145>>, <<119155, 119170>>,
      <<119173, 119179>>, <<119210, 119213>>, <<119362, 119364>>,
      <<121344, 121398>>, <<121403, 121452>>, <<121461, 121461>>,
      <<121476, 121476>>, <<121499, 121503>>, <<121505, 121519>>,
      <<122880, 122886>>, <<122888, 122904>>, <<122907, 122913>>,
      <<122915, 122916>>, <<122918, 122922>>, <<123184, 123197>>,
      <<123566, 123566>>, <<123628, 123631>>, <<125136, 125142>>,
      <<125252, 125259>>, <<127995, 127999>>, <<917505, 917505>>,
      <<917536, 917631>>, <<917760, 917999>>
    }

\* Characters repr() writes as an escape: str.isprintable() is false.
NonPrintableRanges ==
    {
      <<0, 31>>, <<127, 160>>, <<173, 173>>, <<888, 889>>, <<896, 899>>,
      <<907, 907>>, <<909, 909>>, <<930, 930>>, <<1328, 1328>>,
      <<1367, 1368>>, <<1419, 1420>>, <<1424, 1424>>, <<1480, 1487>>,
      <<1515, 1518>>, <<1525, 1541>>, <<1564, 1564>>, <<1757, 1757>>,
      <<1806, 1807>>, <<1867, 1868>>, <<1970, 1983>>, <<2043, 2044>>,
      <<2094, 2095>>, <<2111, 2111>>, <<2140, 2141>>, <<2143, 2143>>,
      <<2155, 2159>>, <<2191, 2199>>, <<2274, 2274>>, <<2436, 2436>>,
      <<2445, 2446>>, <<2449, 2450>>, <<2473, 2473>>, <<2481, 2481>>,
      <<2483, 2485>>, <<2490, 2491>>, <<2501, 2502>>, <<2505, 2506>>,
      <<2511, 2518>>, <<2520, 2523>>, <<2526, 2526>>, <<2532, 2533>>,
      <<2559, 2560>>, <<2564, 2564>>, <<2571, 2574>>, <<2577, 2578>>,
      <<2601, 2601>>, <<2609, 2609>>, <<2612, 2612>>, <<2615, 2615>>,
      <<2618, 2619>>, <<2621, 2621>>, <<2627, 2630>>, <<2633, 2634>>,
      <<2638, 2640>>, <<2642, 2648>>, <<2653, 2653>>, <<2655, 2661>>,
      <<2679, 2688>>, <<2692, 2692>>, <<2702, 2702>>, <<2706, 2706>>,
      <<2729, 2729>>, <<2737, 2737>>, <<2740, 2740>>, <<2746, 2747>>,
      <<2758, 2758>>, <<2762, 2762>>, <<2766, 2767>>, <<2769, 2783>>,
      <<2788, 2789>>, <<2802, 2808>>, <<2816, 2816>>, <<2820, 2820>>,
      <<2829, 2830>>, <<2833, 2834>>, <<2857, 2857>>, <<2865, 2865>>,
      <<2868, 2868>>, <<2874, 2875>>, <<2885, 2886>>, <<2889, 2890>>,
      <<2894, 2900>>, <<2904, 2907>>, <<2910, 2910>>, <<2916, 2917>>,
      <<2936, 2945>>, <<2948, 2948>>, <<2955, 2957>>, <<2961, 2961>>,
      <<2966, 2968>>, <<2971, 2971>>, <<2973, 2973>>, <<2976, 2978>>,
      <<2981, 2983>>, <<2987, 2989>>, <<3002, 3005>>, <<3011, 3013>>,
      <<3017, 3017>>, <<3022, 3023>>, <<3025, 3030>>, <<3032, 3045>>,
      <<3067, 3071>>, <<3085, 3085>>, <<3089, 3089>>, <<3113, 3113>>,
      <<3130, 3131>>, <<3141, 3141>>, <<3145, 3145>>, <<3150, 3156>>,
      <<3159, 3159>>, <<3163, 3164>>, <<3166, 3167>>, <<3172, 3173>>,
      <<3184, 3190>>, <<3213, 3213>>, <<3217, 3217>>, <<3241, 3241>>,
      <<3252, 3252>>, <<3258, 3259>>, <<3269, 3269>>, <<3273, 3273>>,
      <<3278, 3284>>, <<3287, 3292>>, <<3295, 3295>>, <<3300, 3301>>,
      <<3312, 3312>>, <<3315, 3327>>, <<3341, 3341>>, <<3345, 3345>>,
      <<3397, 3397>>, <<3401, 3401>>, <<3408, 3411>>, <<3428, 3429>>,
      <<3456, 3456>>, <<3460, 3460>>, <<3479, 3481>>, <<3506, 3506>>,
      <<3516, 3516>>, <<3518, 3519>>, <<3527, 3529>>, <<3531, 3534>>,
      <<3541, 3541>>, <<3543, 3543>>, <<3552, 3557>>, <<3568, 3569>>,
      <<3573, 3584>>, <<3643, 3646>>, <<3676, 3712>>, <<3715, 3715>>,
      <<3717, 3717>>, <<3723, 3723>>, <<3748, 3748>>, <<3750, 3750>>,
      <<3774, 3775>>, <<3781, 3781>>, <<3783, 3783>>, <<3790, 3791>>,
      <<3802, 3803>>, <<3808, 3839>>, <<3912, 3912>>, <<3949, 3952>>,
      <<3992, 3992>>, <<4029, 4029>>, <<4045, 4045>>, <<4059, 4095>>,
      <<4294, 4294>>, <<4296, 4300>>, <<4302, 4303>>, <<4681, 4681>>,
      <<4686, 4687>>, <<4695, 4695>>, <<4697, 4697>>, <<4702, 4703>>,
      <<4745, 4745>>, <<4750, 4751>>, <<4785, 4785>>, <<4790, 4791>>,
      <<4799, 4799>>, <<4801, 4801>>, <<4806, 4807>>, <<4823, 4823>>,
      <<4881, 4881>>, <<4886, 4887>>, <<4955, 4956>>, <<4989, 4991>>,
      <<5018, 5023>>, <<5110, 5111>>, <<5118, 5119>>, <<5760, 5760>>,
      <<5789, 5791>>, <<5881, 5887>>, <<5910, 5918>>, <<5943, 5951>>,
      <<5972, 5983>>, <<5997, 5997>>, <<6001, 6001>>, <<6004, 6015>>,
      <<6110, 6111>>, <<6122, 6127>>, <<6138, 6143>>, <<6158, 6158>>,
      <<6170, 6175>>, <<6265, 6271>>, <<6315, 6319>>, <<6390, 6399>>,
      <<6431, 6431>>, <<6444, 6447>>, <<6460, 6463>>, <<6465, 6467>>,
      <<6510, 6511>>, <<6517, 6527>>, <<6572, 6575>>, <<6602, 6607>>,
      <<6619, 6621>>, <<6684, 6685>>, <<6751, 6751>>, <<6781, 6782>>,
      <<6794, 6799>>, <<6810, 6815>>, <<6830, 6831>>, <<6863, 6911>>,
      <<6989, 6991>>, <<7039, 7039>>, <<7156, 7163>>, <<7224, 7226>>,
      <<7242, 7244>>, <<7305, 7311>>, <<7355, 7356>>, <<7368, 7375>>,
      <<7419, 7423>>, <<7958, 7959>>, <<7966, 7967>>, <<8006, 8007>>,
      <<8014, 8015>>, <<8024, 8024>>, <<8026, 8026>>, <<8028, 8028>>,
      <<8030, 8030>>, <<8062, 8063>>, <<8117, 8117>>, <<8133, 8133>>,
      <<8148, 8149>>, <<8156, 8156>>, <<8176, 8177>>, <<8181, 8181>>,
      <<8191, 8207>>, <<8232, 8239>>, <<8287, 8303>>, <<8306, 8307>>,
      <<8335, 8335>>, <<8349, 8351>>, <<8385, 8399>>, <<8433, 8447>>,
      <<8588, 8591>>, <<9255, 9279>>, <<9291, 9311>>, <<11124, 11125>>,
      <<11158, 11158>>, <<11508, 11512>>, <<11558, 11558>>, <<11560, 11564>>,
      <<11566, 11567>>, <<11624, 11630>>, <<11633, 11646>>, <<11671, 11679>>,
      <<11687, 11687>>, <<11695, 11695>>, <<11703, 11703>>, <<11711, 11711>>,
      <<11719, 11719>>, <<11727, 11727>>, <<11735, 11735>>, <<11743, 11743>>,
      <<11870, 11903>>, <<11930, 11930>>, <<12020, 12031>>, <<12246, 12271>>,
      <<12284, 12288>>, <<12352, 12352>>, <<12439, 12440>>, <<12544, 12548>>,
      <<12592, 12592>>, <<12687, 12687>>, <<12772, 12783>>, <<12831, 12831>>,
      <<42125, 42127>>, <<42183, 42191>>, <<42540, 42559>>, <<42744, 42751>>,
      <<42955, 42959>>, <<42962, 42962>>, <<42964, 42964>>, <<42970, 42993>>,
      <<43053, 43055>>, <<43066, 43071>>, <<43128, 43135>>, <<43206, 43213>>,
      <<43226, 43231>>, <<43348, 43358>>, <<43389, 43391>>, <<43470, 43470>>,
      <<43482, 43485>>, <<43519, 43519>>, <<43575, 43583>>, <<43598, 43599>>,
      <<43610, 43611>>, <<43715, 43738>>, <<43767, 43776>>, <<43783, 43784>>,
      <<43791, 43792>>, <<43799, 43807>>, <<43815, 43815>>, <<43823, 43823>>,
      <<43884, 43887>>, <<44014, 44015>>, <<44026, 44031>>, <<55204, 55215>>,
      <<55239, 55242>>, <<55292, 63743>>, <<64110, 64111>>, <<64218, 64255>>,
      <<64263, 64274>>, <<64280, 64284>>, <<64311, 64311>>, <<64317, 64317>>,
      <<64319, 64319>>, <<64322, 64322>>, <<64325, 64325>>, <<64451, 64466>>,
      <<64912, 64913>>, <<64968, 64974>>, <<64976, 65007>>, <<65050, 65055>>,
      <<65107, 65107>>, <<65127, 65127>>, <<65132, 65135>>, <<65141, 65141>>,
      <<65277, 65280>>, <<65471, 65473>>, <<65480, 65481>>, <<65488, 65489>>,
      <<65496, 65497>>, <<65501, 65503>>, <<65511, 65511>>, <<65519, 65531>>,
      <<65534, 65535>>, <<65548, 65548>>, <<65575, 65575>>, <<65595, 65595>>,
      <<65598, 65598>>, <<65614, 65615>>, <<65630, 65663>>, <<65787, 65791>>,
      <<65795, 65798>>, <<65844, 65846>>, <<65935, 65935>>, <<65949, 65951>>,
      <<65953, 65999>>, <<66046, 66175>>, <<66205, 66207>>, <<66257, 66271>>,
      <<66300, 66303>>, <<66340, 66348>>, <<66379, 66383>>, <<66427, 66431>>,
      <<66462, 66462>>, <<66500, 66503>>, <<66518, 66559>>, <<66718, 66719>>,
      <<66730, 66735>>, <<66772, 66775>>, <<66812, 66815>>, <<66856, 66863>>,
      <<66916, 66926>>, <<66939, 66939>>, <<66955, 66955>>, <<66963, 66963>>,
      <<66966, 66966>>, <<66978, 66978>>, <<66994, 66994>>, <<67002, 67002>>,
      <<67005, 67071>>, <<67383, 67391>>, <<67414, 67423>>, <<67432, 67455>>,
      <<67462, 67462>>, <<67505, 67505>>, <<67515, 67583>>, <<67590, 67591>>,
      <<67593, 67593>>, <<67638, 67638>>, <<67641, 67643>>, <<67645, 67646>>,
      <<67670, 67670>>, <<67743, 67750>>, <<67760, 67807>>, <<67827, 67827>>,
      <<67830, 67834>>, <<67868, 67870>>, <<67898, 67902>>, <<67904, 67967>>,
      <<68024, 68027>>, <<68048, 68049>>, <<68100, 68100>>, <<68103, 68107>>,
      <<68116, 68116>>, <<68120, 68120>>, <<68150, 68151>>, <<68155, 68158>>,
      <<68169, 68175>>, <<68185, 68191>>, <<68256, 68287>>, <<68327, 68330>>,
      <<68343, 68351>>, <<68406, 68408>>, <<68438, 68439>>, <<68467, 68471>>,
      <<68498, 68504>>, <<68509, 68520>>, <<68528, 68607>>, <<68681, 68735>>,
      <<68787, 68799>>, <<68851, 68857>>, <<68904, 68911>>, <<68922, 69215>>,
      <<69247, 69247>>, <<69290, 69290>>, <<69294, 69295>>, <<69298, 69375>>,
      <<69416, 69423>>, <<69466, 69487>>, <<69514, 69551>>, <<69580, 69599>>,
      <<69623, 69631>>, <<69710, 69713>>, <<69750, 69758>>, <<69821, 69821>>,
      <<69827, 69839>>, <<69865, 69871>>, <<69882, 69887>>, <<69941, 69941>>,
      <<69960, 69967>>, <<70007, 70015>>, <<70112, 70112>>, <<70133, 70143>>,
      <<70162, 70162>>, <<70207, 70271>>, <<70279, 70279>>, <<70281, 70281>>,
      <<70286, 70286>>, <<70302, 70302>>, <<70314, 70319>>, <<70379, 70383>>,
      <<70394, 70399>>, <<70404, 70404>>, <<70413, 70414>>, <<70417, 70418>>,
      <<70441, 70441>>, <<70449, 70449>>, <<70452, 70452>>, <<70458, 70458>>,
      <<70469, 70470>>, <<70473, 70474>>, <<70478, 70479>>, <<70481, 70486>>,
      <<70488, 70492>>, <<70500, 70501>>, <<70509, 70511>>, <<70517, 70655>>,
      <<70748, 70748>>, <<70754, 70783>>, <<70856, 70863>>, <<70874, 71039>>,
      <<71094, 71095>>, <<71134, 71167>>, <<71237, 71247>>, <<71258, 71263>>,
      <<71277, 71295>>, <<71354, 71359>>, <<71370, 71423>>, <<71451, 71452>>,
      <<71468, 71471>>, <<71495, 71679>>, <<71740, 71839>>, <<71923, 71934>>,
      <<71943, 71944>>, <<71946, 71947>>, <<71956, 71956>>, <<71959, 71959>>,
      <<71990, 71990>>, <<71993, 71994>>, <<72007, 72015>>, <<72026, 72095>>,
      <<72104, 72105>>, <<72152, 72153>>, <<72165, 72191>>, <<72264, 72271>>,
      <<72355, 72367>>, <<72441, 72703>>, <<72713, 72713>>, <<72759, 72759>>,
      <<72774, 72783>>, <<72813, 72815>>, <<72848, 72849>>, <<72872, 72872>>,
      <<72887, 72959>>, <<72967, 72967>>, <<72970, 72970>>, <<73015, 73017>>,
      <<73019, 73019>>, <<73022, 73022>>, <<73032, 73039>>, <<73050, 73055>>,
      <<73062, 73062>>, <<73065, 73065>>, <<73103, 73103>>, <<73106, 73106>>,
      <<73113, 73119>>, <<73130, 73439>>, <<73465, 73647>>, <<73649, 73663>>,
      <<73714, 73726>>, <<74650, 74751>>, <<74863, 74863>>, <<74869, 74879>>,
      <<75076, 77711>>, <<77811, 77823>>, <<78895, 82943>>, <<83527, 92159>>,
      <<92729, 92735>>, <<92767, 92767>>, <<92778, 92781>>, <<92863, 92863>>,
      <<92874, 92879>>, <<92910, 92911>>, <<92918, 92927>>, <<92998, 93007>>,
      <<93018, 93018>>, <<93026, 93026>>, <<93048, 93052>>, <<93072, 93759>>,
      <<93851, 93951>>, <<94027, 94030>>, <<94088, 94094>>, <<94112, 94175>>,
      <<94181, 94191>>, <<94194, 94207>>, <<100344, 100351>>,
      <<101590, 101631>>, <<101641, 110575>>, <<110580, 110580>>,
      <<110588, 110588>>, <<110591, 110591>>, <<110883, 110927>>,
      <<110931, 110947>>, <<110952, 110959>>, <<111356, 113663>>,
      <<113771, 113775>>, <<113789, 113791>>, <<113801, 113807>>,
      <<113818, 113819>>, <<113824, 118527>>, <<118574, 118575>>,
      <<118599, 118607>>, <<118724, 118783>>, <<119030, 119039>>,
      <<119079, 119080>>, <<119155, 119162>>, <<119275, 119295>>,
      <<119366, 119519>>, <<119540, 119551>>, <<119639, 119647>>,
      <<119673, 119807>>, <<119893, 119893>>, <<119965, 119965>>,
      <<119968, 119969>>, <<119971, 119972>>, <<119975, 119976>>,
      <<119981, 119981>>, <<119994, 119994>>, <<119996, 119996>>,
      <<120004, 120004>>, <<120070, 120070>>, <<120075, 120076>>,
      <<120085, 120085>>, <<120093, 120093>>, <<120122, 120122>>,
      <<120127, 120127>>, <<120133, 120133>>, <<120135, 120137>>,
      <<120145, 120145>>, <<120486, 120487>>, <<120780, 120781>>,
      <<121484, 121498>>, <<121504, 121504>>, <<121520, 122623>>,
      <<122655, 122879>>, <<122887, 122887>>, <<122905, 122906>>,
      <<122914, 122914>>, <<122917, 122917>>, <<122923, 123135>>,
      <<123181, 123183>>, <<123198, 123199>>, <<123210, 123213>>,
      <<123216, 123535>>, <<123567, 123583>>, <<123642, 123646>>,
      <<123648, 124895>>, <<124903, 124903>>, <<124908, 124908>>,
      <<124911, 124911>>, <<124927, 124927>>, <<125125, 125126>>,
      <<125143, 125183>>, <<125260, 125263>>, <<125274, 125277>>,
      <<125280, 126064>>, <<126133, 126208>>, <<126270, 126463>>,
      <<126468, 126468>>, <<126496, 126496>>, <<126499, 126499>>,
      <<126501, 126502>>, <<126504, 126504>>, <<126515, 126515>>,
      <<126520, 126520>>, <<126522, 126522>>, <<126524, 126529>>,
      <<126531, 126534>>, <<126536, 126536>>, <<126538, 126538>>,
      <<126540, 126540>>, <<126544, 126544>>, <<126547, 126547>>,
      <<126549, 126550>>, <<126552, 126552>>, <<126554, 126554>>,
      <<126556, 126556>>, <<126558, 126558>>, <<126560, 126560>>,
      <<126563, 126563>>, <<126565, 126566>>, <<126571, 126571>>,
      <<126579, 126579>>, <<126584, 126584>>, <<126589, 126589>>,
      <<126591, 126591>>, <<126602, 126602>>, <<126620, 126624>>,
      <<126628, 126628>>, <<126634, 126634>>, <<126652, 126703>>,
      <<126706, 126975>>, <<127020, 127023>>, <<127124, 127135>>,
      <<127151, 127152>>, <<127168, 127168>>, <<127184, 127184>>,
      <<127222, 127231>>, <<127406, 127461>>, <<127491, 127503>>,
      <<127548, 127551>>, <<127561, 127567>>, <<127570, 127583>>,
      <<127590, 127743>>, <<128728, 128732>>, <<128749, 128751>>,
      <<128765, 128767>>, <<128884, 128895>>, <<128985, 128991>>,
      <<129004, 129007>>, <<129009, 129023>>, <<129036, 129039>>,
      <<129096, 129103>>, <<129114, 129119>>, <<129160, 129167>>,
      <<129198, 129199>>, <<129202, 129279>>, <<129620, 129631>>,
      <<129646, 129647>>, <<129653, 129655>>, <<129661, 129663>>,
      <<129671, 129679>>, <<129709, 129711>>, <<129723, 129727>>,
      <<129734, 129743>>, <<129754, 129759>>, <<129768, 129775>>,
      <<129783, 129791>>, <<129939, 129939>>, <<129995, 130031>>,
      <<130042, 131071>>, <<173792, 173823>>, <<177977, 177983>>,
      <<178206, 178207>>, <<183970, 183983>>, <<191457, 194559>>,
      <<195102, 196607>>, <<201547, 917759>>, <<918000, 1114111>>
    }

\* str.upper() of one character.
UpperRuns ==
    {
      <<97, 122, 1, -32>>, <<181, 181, 1, 743>>, <<224, 246, 1, -32>>,
      <<248, 254, 1, -32>>, <<255, 255, 1, 121>>, <<257, 303, 2, -1>>,
      <<305, 305, 1, -232>>, <<307, 311, 2, -1>>, <<314, 328, 2, -1>>,
      <<331, 375, 2, -1>>, <<378, 382, 2, -1>>, <<383, 383, 1, -300>>,
      <<384, 384, 1, 195>>, <<387, 389, 2, -1>>, <<392, 392, 1, -1>>,
      <<396, 396, 1, -1>>, <<402, 402, 1, -1>>, <<405, 405, 1, 97>>,
      <<409, 409, 1, -1>>, <<410, 410, 1, 163>>, <<414, 414, 1, 130>>,
      <<417, 421, 2, -1>>, <<424, 424, 1, -1>>, <<429, 429, 1, -1>>,
      <<432, 432, 1, -1>>, <<436, 438, 2, -1>>, <<441, 441, 1, -1>>,
      <<445, 445, 1, -1>>, <<447, 447, 1, 56>>, <<453, 453, 1, -1>>,
      <<454, 454, 1, -2>>, <<456, 456, 1, -1>>, <<457, 457, 1, -2>>,
      <<459, 459, 1, -1>>, <<460, 460, 1, -2>>, <<462, 476, 2, -1>>,
      <<477, 477, 1, -79>>, <<479, 495, 2, -1>>, <<498, 498, 1, -1>>,
      <<499, 499, 1, -2>>, <<501, 501, 1, -1>>, <<505, 543, 2, -1>>,
      <<547, 563, 2, -1>>, <<572, 572, 1, -1>>, <<575, 576, 1, 10815>>,
      <<578, 578, 1, -1>>, <<583, 591, 2, -1>>, <<592, 592, 1, 10783>>,
      <<593, 593, 1, 10780>>, <<594, 594, 1, 10782>>, <<595, 595, 1, -210>>,
      <<596, 596, 1, -206>>, <<598, 599, 1, -205>>, <<601, 601, 1, -202>>,
      <<603, 603, 1, -203>>, <<604, 604, 1, 42319>>, <<608, 608, 1, -205>>,
      <<609, 609, 1, 42315>>, <<611, 611, 1, -207>>, <<613, 613, 1, 42280>>,
      <<614, 614, 1, 42308>>, <<616, 616, 1, -209>>, <<617, 617, 1, -211>>,
      <<618, 618, 1, 42308>>, <<619, 619, 1, 10743>>, <<620, 620, 1, 42305>>,
      <<623, 623, 1, -211>>, <<625, 625, 1, 10749>>, <<626, 626, 1, -213>>,
      <<629, 629, 1, -214>>, <<637, 637, 1, 10727>>, <<640, 640, 1, -218>>,
      <<642, 642, 1, 42307>>, <<643, 643, 1, -218>>, <<647, 647, 1, 42282>>,
      <<648, 648, 1, -218>>, <<649, 649, 1, -69>>, <<650, 651, 1, -217>>,
      <<652, 652, 1, -71>>, <<658, 658, 1, -219>>, <<669, 669, 1, 42261>>,
      <<670, 670, 1, 42258>>, <<837, 837, 1, 84>>, <<881, 883, 2, -1>>,
      <<887, 887, 1, -1>>, <<891, 893, 1, 130>>, <<940, 940, 1, -38>>,
      <<941, 943, 1, -37>>, <<945, 961, 1, -32>>, <<962, 962, 1, -31>>,
      <<963, 971, 1, -32>>, <<972, 972, 1, -64>>, <<973, 974, 1, -63>>,
      <<976, 976, 1, -62>>, <<977, 977, 1, -57>>, <<981, 981, 1, -47>>,
      <<982, 982, 1, -54>>, <<983, 983, 1, -8>>, <<985, 1007, 2, -1>>,
      <<1008, 1008, 1, -86>>, <<1009, 1009, 1, -80>>, <<1010, 1010, 1, 7>>,
      <<1011, 1011, 1, -116>>, <<1013, 1013, 1, -96>>, <<1016, 1016, 1, -1>>,
      <<1019, 1019, 1, -1>>, <<1072, 1103, 1, -32>>, <<1104, 1119, 1, -80>>,
      <<1121, 1153, 2, -1>>, <<1163, 1215, 2, -1>>, <<1218, 1230, 2, -1>>,
      <<1231, 1231, 1, -15>>, <<1233, 1327, 2, -1>>, <<1377, 1414, 1, -48>>,
      <<4304, 4346, 1, 3008>>, <<4349, 4351, 1, 3008>>, <<5112, 5117, 1, -8>>,
      <<7296, 7296, 1, -6254>>, <<7297, 7297, 1, -6253>>,
      <<7298, 7298, 1, -6244>>, <<7299, 7300, 1, -6242>>,
      <<7301, 7301, 1, -6243>>, <<7302, 7302, 1, -6236>>,
      <<7303, 7303, 1, -6181>>, <<7304, 7304, 1, 35266>>,
      <<7545, 7545, 1, 35332>>, <<7549, 7549, 1, 3814>>,
      <<7566, 7566, 1, 35384>>, <<7681, 7829, 2, -1>>, <<7835, 7835, 1, -59>>,
      <<7841, 7935, 2, -1>>, <<7936, 7943, 1, 8>>, <<7952, 7957, 1, 8>>,
      <<7968, 7975, 1, 8>>, <<7984, 7991, 1, 8>>, <<8000, 8005, 1, 8>>,
      <<8017, 8023, 2, 8>>, <<8032, 8039, 1, 8>>, <<8048, 8049, 1, 74>>,
      <<8050, 8053, 1, 86>>, <<8054, 8055, 1, 100>>, <<8056, 8057, 1, 128>>,
      <<8058, 8059, 1, 112>>, <<8060, 8061, 1, 126>>, <<8112, 8113, 1, 8>>,
      <<8126, 8126, 1, -7205>>, <<8144, 8145, 1, 8>>, <<8160, 8161, 1, 8>>,
      <<8165, 8165, 1, 7>>, <<8526, 8526, 1, -28>>, <<8560, 8575, 1, -16>>,
      <<8580, 8580, 1, -1>>, <<9424, 9449, 1, -26>>, <<11312, 11359, 1, -48>>,
      <<11361, 11361, 1, -1>>, <<11365, 11365, 1, -10795>>,
      <<11366, 11366, 1, -10792>>, <<11368, 11372, 2, -1>>,
      <<11379, 11379, 1, -1>>, <<11382, 11382, 1, -1>>,
      <<11393, 11491, 2, -1>>, <<11500, 11502, 2, -1>>,
      <<11507, 11507, 1, -1>>, <<11520, 11557, 1, -7264>>,
      <<11559, 11559, 1, -7264>>, <<11565, 11565, 1, -7264>>,
      <<42561, 42605, 2, -1>>, <<42625, 42651, 2, -1>>,
      <<42787, 42799, 2, -1>>, <<42803, 42863, 2, -1>>,
      <<42874, 42876, 2, -1>>, <<42879, 42887, 2, -1>>,
      <<42892, 42892, 1, -1>>, <<42897, 42899, 2, -1>>,
      <<42900, 42900, 1, 48>>, <<42903, 42921, 2, -1>>,
      <<42933, 42947, 2, -1>>, <<42952, 42954, 2, -1>>,
      <<42961, 42961, 1, -1>>, <<42967, 42969, 2, -1>>,
      <<42998, 42998, 1, -1>>, <<43859, 43859, 1, -928>>,
      <<43888, 43967, 1, -38864>>, <<65345, 65370, 1, -32>>,
      <<66600, 66639, 1, -40>>, <<66776, 66811, 1, -40>>,
      <<66967, 67003, 2, -39>>, <<66968, 66976, 2, -39>>,
      <<66980, 66992, 2, -39>>, <<66996, 67000, 2, -39>>,
      <<67004, 67004, 1, -39>>, <<68800, 68850, 1, -64>>,
      <<71872, 71903, 1, -32>>, <<93792, 93823, 1, -32>>,
      <<125218, 125251, 1, -34>>
    }

UpperSpecial ==
    {
      <<223, <<83, 83>>>>, <<329, <<700, 78>>>>, <<496, <<74, 780>>>>,
      <<912, <<921, 776, 769>>>>, <<944, <<933, 776, 769>>>>,
      <<1415, <<1333, 1362>>>>, <<7830, <<72, 817>>>>, <<7831, <<84, 776>>>>,
      <<7832, <<87, 778>>>>, <<7833, <<89, 778>>>>, <<7834, <<65, 702>>>>,
      <<8016, <<933, 787>>>>, <<8018, <<933, 787, 768>>>>,
      <<8020, <<933, 787, 769>>>>, <<8022, <<933, 787, 834>>>>,
      <<8064, <<7944, 921>>>>, <<8065, <<7945, 921>>>>,
      <<8066, <<7946, 921>>>>, <<8067, <<7947, 921>>>>,
      <<8068, <<7948, 921>>>>, <<8069, <<7949, 921>>>>,
      <<8070, <<7950, 921>>>>, <<8071, <<7951, 921>>>>,
      <<8072, <<7944, 921>>>>, <<8073, <<7945, 921>>>>,
      <<8074, <<7946, 921>>>>, <<8075, <<7947, 921>>>>,
      <<8076, <<7948, 921>>>>, <<8077, <<7949, 921>>>>,
      <<8078, <<7950, 921>>>>, <<8079, <<7951, 921>>>>,
      <<8080, <<7976, 921>>>>, <<8081, <<7977, 921>>>>,
      <<8082, <<7978, 921>>>>, <<8083, <<7979, 921>>>>,
      <<8084, <<7980, 921>>>>, <<8085, <<7981, 921>>>>,
      <<8086, <<7982, 921>>>>, <<8087, <<7983, 921>>>>,
      <<8088, <<7976, 921>>>>, <<8089, <<7977, 921>>>>,
      <<8090, <<7978, 921>>>>, <<8091, <<7979, 921>>>>,
      <<8092, <<7980, 921>>>>, <<8093, <<7981, 921>>>>,
      <<8094, <<7982, 921>>>>, <<8095, <<7983, 921>>>>,
      <<8096, <<8040, 921>>>>, <<8097, <<8041, 921>>>>,
      <<8098, <<8042, 921>>>>, <<8099, <<8043, 921>>>>,
      <<8100, <<8044, 921>>>>, <<8101, <<8045, 921>>>>,
      <<8102, <<8046, 921>>>>, <<8103, <<8047, 921>>>>,
      <<8104, <<8040, 921>>>>, <<8105, <<8041, 921>>>>,
      <<8106, <<8042, 921>>>>, <<8107, <<8043, 921>>>>,
      <<8108, <<8044, 921>>>>, <<8109, <<8045, 921>>>>,
      <<8110, <<8046, 921>>>>, <<8111, <<8047, 921>>>>,
      <<8114, <<8122, 921>>>>, <<8115, <<913, 921>>>>, <<8116, <<902, 921>>>>,
      <<8118, <<913, 834>>>>, <<8119, <<913, 834, 921>>>>,
      <<8124, <<913, 921>>>>, <<8130, <<8138, 921>>>>, <<8131, <<919, 921>>>>,
      <<8132, <<905, 921>>>>, <<8134, <<919, 834>>>>,
      <<8135, <<919, 834, 921>>>>, <<8140, <<919, 921>>>>,
      <<8146, <<921, 776, 768>>>>, <<8147, <<921, 776, 769>>>>,
      <<8150, <<921, 834>>>>, <<8151, <<921, 776, 834>>>>,
      <<8162, <<933, 776, 768>>>>, <<8163, <<933, 776, 769>>>>,
      <<8164, <<929, 787>>>>, <<8166, <<933, 834>>>>,
      <<8167, <<933, 776, 834>>>>, <<8178, <<8186, 921>>>>,
      <<8179, <<937, 921>>>>, <<8180, <<911, 921>>>>, <<8182, <<937, 834>>>>,
      <<8183, <<937, 834, 921>>>>, <<8188, <<937, 921>>>>,
      <<64256, <<70, 70>>>>, <<64257, <<70, 73>>>>, <<64258, <<70, 76>>>>,
      <<64259, <<70, 70, 73>>>>, <<64260, <<70, 70, 76>>>>,
      <<64261, <<83, 84>>>>, <<64262, <<83, 84>>>>, <<64275, <<1348, 1350>>>>,
      <<64276, <<1348, 1333>>>>, <<64277, <<1348, 1339>>>>,
      <<64278, <<1358, 1350>>>>, <<64279, <<1348, 1341>>>>
    }

\* str.lower() of one character.
LowerRuns ==
    {
      <<65, 90, 1, 32>>, <<192, 214, 1, 32>>, <<216, 222, 1, 32>>,
      <<256, 302, 2, 1>>, <<306, 310, 2, 1>>, <<313, 327, 2, 1>>,
      <<330, 374, 2, 1>>, <<376, 376, 1, -121>>, <<377, 381, 2, 1>>,
      <<385, 385, 1, 210>>, <<386, 388, 2, 1>>, <<390, 390, 1, 206>>,
      <<391, 391, 1, 1>>, <<393, 394, 1, 205>>, <<395, 395, 1, 1>>,
      <<398, 398, 1, 79>>, <<399, 399, 1, 202>>, <<400, 400, 1, 203>>,
      <<401, 401, 1, 1>>, <<403, 403, 1, 205>>, <<404, 404, 1, 207>>,
      <<406, 406, 1, 211>>, <<407, 407, 1, 209>>, <<408, 408, 1, 1>>,
      <<412, 412, 1, 211>>, <<413, 413, 1, 213>>, <<415, 415, 1, 214>>,
      <<416, 420, 2, 1>>, <<422, 422, 1, 218>>, <<423, 423, 1, 1>>,
      <<425, 425, 1, 218>>, <<428, 428, 1, 1>>, <<430, 430, 1, 218>>,
      <<431, 431, 1, 1>>, <<433, 434, 1, 217>>, <<435, 437, 2, 1>>,
      <<439, 439, 1, 219>>, <<440, 440, 1, 1>>, <<444, 444, 1, 1>>,
      <<452, 452, 1, 2>>, <<453, 453, 1, 1>>, <<455, 455, 1, 2>>,
      <<456, 456, 1, 1>>, <<458, 458, 1, 2>>, <<459, 475, 2, 1>>,
      <<478, 494, 2, 1>>, <<497, 497, 1, 2>>, <<498, 500, 2, 1>>,
      <<502, 502, 1, -97>>, <<503, 503, 1, -56>>, <<504, 542, 2, 1>>,
      <<544, 544, 1, -130>>, <<546, 562, 2, 1>>, <<570, 570, 1, 10795>>,
      <<571, 571, 1, 1>>, <<573, 573, 1, -163>>, <<574, 574, 1, 10792>>,
      <<577, 577, 1, 1>>, <<579, 579, 1, -195>>, <<580, 580, 1, 69>>,
      <<581, 581, 1, 71>>, <<582, 590, 2, 1>>, <<880, 882, 2, 1>>,
      <<886, 886, 1, 1>>, <<895, 895, 1, 116>>, <<902, 902, 1, 38>>,
      <<904, 906, 1, 37>>, <<908, 908, 1, 64>>, <<910, 911, 1, 63>>,
      <<913, 929, 1, 32>>, <<931, 939, 1, 32>>, <<975, 975, 1, 8>>,
      <<984, 1006, 2, 1>>, <<1012, 1012, 1, -60>>, <<1015, 1015, 1, 1>>,
      <<1017, 1017, 1, -7>>, <<1018, 1018, 1, 1>>, <<1021, 1023, 1, -130>>,
      <<1024, 1039, 1, 80>>, <<1040, 1071, 1, 32>>, <<1120, 1152, 2, 1>>,
      <<1162, 1214, 2, 1>>, <<1216, 1216, 1, 15>>, <<1217, 1229, 2, 1>>,
      <<1232, 1326, 2, 1>>, <<1329, 1366, 1, 48>>, <<4256, 4293, 1, 7264>>,
      <<4295, 4295, 1, 7264>>, <<4301, 4301, 1, 7264>>,
      <<5024, 5103, 1, 38864>>, <<5104, 5109, 1, 8>>,
      <<7312, 7354, 1, -3008>>, <<7357, 7359, 1, -3008>>,
      <<7680, 7828, 2, 1>>, <<7838, 7838, 1, -7615>>, <<7840, 7934, 2, 1>>,
      <<7944, 7951, 1, -8>>, <<7960, 7965, 1, -8>>, <<7976, 7983, 1, -8>>,
      <<7992, 7999, 1, -8>>, <<8008, 8013, 1, -8>>, <<8025, 8031, 2, -8>>,
      <<8040, 8047, 1, -8>>, <<8072, 8079, 1, -8>>, <<8088, 8095, 1, -8>>,
      <<8104, 8111, 1, -8>>, <<8120, 8121, 1, -8>>, <<8122, 8123, 1, -74>>,
      <<8124, 8124, 1, -9>>, <<8136, 8139, 1, -86>>, <<8140, 8140, 1, -9>>,
      <<8152, 8153, 1, -8>>, <<8154, 8155, 1, -100>>, <<8168, 8169, 1, -8>>,
      <<8170, 8171, 1, -112>>, <<8172, 8172, 1, -7>>, <<8184, 8185, 1, -128>>,
      <<8186, 8187, 1, -126>>, <<8188, 8188, 1, -9>>,
      <<8486, 8486, 1, -7517>>, <<8490, 8490, 1, -8383>>,
      <<8491, 8491, 1, -8262>>, <<8498, 8498, 1, 28>>, <<8544, 8559, 1, 16>>,
      <<8579, 8579, 1, 1>>, <<9398, 9423, 1, 26>>, <<11264, 11311, 1, 48>>,
      <<11360, 11360, 1, 1>>, <<11362, 11362, 1, -10743>>,
      <<11363, 11363, 1, -3814>>, <<11364, 11364, 1, -10727>>,
      <<11367, 11371, 2, 1>>, <<11373, 11373, 1, -10780>>,
      <<11374, 11374, 1, -10749>>, <<11375, 11375, 1, -10783>>,
      <<11376, 11376, 1, -10782>>, <<11378, 11378, 1, 1>>,
      <<11381, 11381, 1, 1>>, <<11390, 11391, 1, -10815>>,
      <<11392, 11490, 2, 1>>, <<11499, 11501, 2, 1>>, <<11506, 11506, 1, 1>>,
      <<42560, 42604, 2, 1>>, <<42624, 42650, 2, 1>>, <<42786, 42798, 2, 1>>,
      <<42802, 42862, 2, 1>>, <<42873, 42875, 2, 1>>,
      <<42877, 42877, 1, -35332>>, <<42878, 42886, 2, 1>>,
      <<42891, 42891, 1, 1>>, <<42893, 42893, 1, -42280>>,
      <<42896, 42898, 2, 1>>, <<42902, 42920, 2, 1>>,
      <<42922, 42922, 1, -42308>>, <<42923, 42923, 1, -42319>>,
      <<42924, 42924, 1, -42315>>, <<42925, 42925, 1, -42305>>,
      <<42926, 42926, 1, -42308>>, <<42928, 42928, 1, -42258>>,
      <<42929, 42929, 1, -42282>>, <<42930, 42930, 1, -42261>>,
      <<42931, 42931, 1, 928>>, <<42932, 42946, 2, 1>>,
      <<42948, 42948, 1, -48>>, <<42949, 42949, 1, -42307>>,
      <<42950, 42950, 1, -35384>>, <<42951, 42953, 2, 1>>,
      <<42960, 42960, 1, 1>>, <<42966, 42968, 2, 1>>, <<42997, 42997, 1, 1>>,
      <<65313, 65338, 1, 32>>, <<66560, 66599, 1, 40>>,
      <<66736, 66771, 1, 40>>, <<66928, 66964, 2, 39>>,
      <<66929, 66937, 2, 39>>, <<66941, 66953, 2, 39>>,
      <<66957, 66961, 2, 39>>, <<66965, 66965, 1, 39>>,
      <<68736, 68786, 1, 64>>, <<71840, 71871, 1, 32>>,
      <<93760, 93791, 1, 32>>, <<125184, 125217, 1, 34>>
    }

LowerSpecial ==
    {
      <<304, <<105, 775>>>>
    }

\* str.title() of the first character of a word.
TitleRuns ==
    {
      <<97, 122, 1, -32>>, <<181, 181, 1, 743>>, <<224, 246, 1, -32>>,
      <<248, 254, 1, -32>>, <<255, 255, 1, 121>>, <<257, 303, 2, -1>>,
      <<305, 305, 1, -232>>, <<307, 311, 2, -1>>, <<314, 328, 2, -1>>,
      <<331, 375, 2, -1>>, <<378, 382, 2, -1>>, <<383, 383, 1, -300>>,
      <<384, 384, 1, 195>>, <<387, 389, 2, -1>>, <<392, 392, 1, -1>>,
      <<396, 396, 1, -1>>, <<402, 402, 1, -1>>, <<405, 405, 1, 97>>,
      <<409, 409, 1, -1>>, <<410, 410, 1, 163>>, <<414, 414, 1, 130>>,
      <<417, 421, 2, -1>>, <<424, 424, 1, -1>>, <<429, 429, 1, -1>>,
      <<432, 432, 1, -1>>, <<436, 438, 2, -1>>, <<441, 441, 1, -1>>,
      <<445, 445, 1, -1>>, <<447, 447, 1, 56>>, <<452, 452, 1, 1>>,
      <<454, 454, 1, -1>>, <<455, 455, 1, 1>>, <<457, 457, 1, -1>>,
      <<458, 458, 1, 1>>, <<460, 476, 2, -1>>, <<477, 477, 1, -79>>,
      <<479, 495, 2, -1>>, <<497, 497, 1, 1>>, <<499, 501, 2, -1>>,
      <<505, 543, 2, -1>>, <<547, 563, 2, -1>>, <<572, 572, 1, -1>>,
      <<575, 576, 1, 10815>>, <<578, 578, 1, -1>>, <<583, 591, 2, -1>>,
      <<592, 592, 1, 10783>>, <<593, 593, 1, 10780>>, <<594, 594, 1, 10782>>,
      <<595, 595, 1, -210>>, <<596, 596, 1, -206>>, <<598, 599, 1, -205>>,
      <<601, 601, 1, -202>>, <<603, 603, 1, -203>>, <<604, 604, 1, 42319>>,
      <<608, 608, 1, -205>>, <<609, 609, 1, 42315>>, <<611, 611, 1, -207>>,
      <<613, 613, 1, 42280>>, <<614, 614, 1, 42308>>, <<616, 616, 1, -209>>,
      <<617, 617, 1, -211>>, <<618, 618, 1, 42308>>, <<619, 619, 1, 10743>>,
      <<620, 620, 1, 42305>>, <<623, 623, 1, -211>>, <<625, 625, 1, 10749>>,
      <<626, 626, 1, -213>>, <<629, 629, 1, -214>>, <<637, 637, 1, 10727>>,
      <<640, 640, 1, -218>>, <<642, 642, 1, 42307>>, <<643, 643, 1, -218>>,
      <<647, 647, 1, 42282>>, <<648, 648, 1, -218>>, <<649, 649, 1, -69>>,
      <<650, 651, 1, -217>>, <<652, 652, 1, -71>>, <<658, 658, 1, -219>>,
      <<669, 669, 1, 42261>>, <<670, 670, 1, 42258>>, <<837, 837, 1, 84>>,
      <<881, 883, 2, -1>>, <<887, 887, 1, -1>>, <<891, 893, 1, 130>>,
      <<940, 940, 1, -38>>, <<941, 943, 1, -37>>, <<945, 961, 1, -32>>,
      <<962, 962, 1, -31>>, <<963, 971, 1, -32>>, <<972, 972, 1, -64>>,
      <<973, 974, 1, -63>>, <<976, 976, 1, -62>>, <<977, 977, 1, -57>>,
      <<981, 981, 1, -47>>, <<982, 982, 1, -54>>, <<983, 983, 1, -8>>,
      <<985, 1007, 2, -1>>, <<1008, 1008, 1, -86>>, <<1009, 1009, 1, -80>>,
      <<1010, 1010, 1, 7>>, <<1011, 1011, 1, -116>>, <<1013, 1013, 1, -96>>,
      <<1016, 1016, 1, -1>>, <<1019, 1019, 1, -1>>, <<1072, 1103, 1, -32>>,
      <<1104, 1119, 1, -80>>, <<1121, 1153, 2, -1>>, <<1163, 1215, 2, -1>>,
      <<1218, 1230, 2, -1>>, <<1231, 1231, 1, -15>>, <<1233, 1327, 2, -1>>,
      <<1377, 1414, 1, -48>>, <<5112, 5117, 1, -8>>, <<7296, 7296, 1, -6254>>,
      <<7297, 7297, 1, -6253>>, <<7298, 7298, 1, -6244>>,
      <<7299, 7300, 1, -6242>>, <<7301, 7301, 1, -6243>>,
      <<7302, 7302, 1, -6236>>, <<7303, 7303, 1, -6181>>,
      <<7304, 7304, 1, 35266>>, <<7545, 7545, 1, 35332>>,
      <<7549, 7549, 1, 3814>>, <<7566, 7566, 1, 35384>>,
      <<7681, 7829, 2, -1>>, <<7835, 7835, 1, -59>>, <<7841, 7935, 2, -1>>,
      <<7936, 7943, 1, 8>>, <<7952, 7957, 1, 8>>, <<7968, 7975, 1, 8>>,
      <<7984, 7991, 1, 8>>, <<8000, 8005, 1, 8>>, <<8017, 8023, 2, 8>>,
      <<8032, 8039, 1, 8>>, <<8048, 8049, 1, 74>>, <<8050, 8053, 1, 86>>,
      <<8054, 8055, 1, 100>>, <<8056, 8057, 1, 128>>, <<8058, 8059, 1, 112>>,
      <<8060, 8061, 1, 126>>, <<8064, 8071, 1, 8>>, <<8080, 8087, 1, 8>>,
      <<8096, 8103, 1, 8>>, <<8112, 8113, 1, 8>>, <<8115, 8115, 1, 9>>,
      <<8126, 8126, 1, -7205>>, <<8131, 8131, 1, 9>>, <<8144, 8145, 1, 8>>,
      <<8160, 8161, 1, 8>>, <<8165, 8165, 1, 7>>, <<8179, 8179, 1, 9>>,
      <<8526, 8526, 1, -28>>, <<8560, 8575, 1, -16>>, <<8580, 8580, 1, -1>>,
      <<9424, 9449, 1, -26>>, <<11312, 11359, 1, -48>>,
      <<11361, 11361, 1, -1>>, <<11365, 11365, 1, -10795>>,
      <<11366, 11366, 1, -10792>>, <<11368, 11372, 2, -1>>,
      <<11379, 11379, 1, -1>>, <<11382, 11382, 1, -1>>,
      <<11393, 11491, 2, -1>>, <<11500, 11502, 2, -1>>,
      <<11507, 11507, 1, -1>>, <<11520, 11557, 1, -7264>>,
      <<11559, 11559, 1, -7264>>, <<11565, 11565, 1, -7264>>,
      <<42561, 42605, 2, -1>>, <<42625, 42651, 2, -1>>,
      <<42787, 42799, 2, -1>>, <<42803, 42863, 2, -1>>,
      <<42874, 42876, 2, -1>>, <<42879, 42887, 2, -1>>,
      <<42892, 42892, 1, -1>>, <<42897, 42899, 2, -1>>,
      <<42900, 42900, 1, 48>>, <<42903, 42921, 2, -1>>,
      <<42933, 42947, 2, -1>>, <<42952, 42954, 2, -1>>,
      <<42961, 42961, 1, -1>>, <<42967, 42969, 2, -1>>,
      <<42998, 42998, 1, -1>>, <<43859, 43859, 1, -928>>,
      <<43888, 43967, 1, -38864>>, <<65345, 65370, 1, -32>>,
      <<66600, 66639, 1, -40>>, <<66776, 66811, 1, -40>>,
      <<66967, 67003, 2, -39>>, <<66968, 66976, 2, -39>>,
      <<66980, 66992, 2, -39>>, <<66996, 67000, 2, -39>>,
      <<67004, 67004, 1, -39>>, <<68800, 68850, 1, -64>>,
      <<71872, 71903, 1, -32>>, <<93792, 93823, 1, -32>>,
      <<125218, 125251, 1, -34>>
    }

TitleSpecial ==
    {
      <<223, <<83, 115>>>>, <<329, <<700, 78>>>>, <<496, <<74, 780>>>>,
      <<912, <<921, 776, 769>>>>, <<944, <<933, 776, 769>>>>,
      <<1415, <<1333, 1410>>>>, <<7830, <<72, 817>>>>, <<7831, <<84, 776>>>>,
      <<7832, <<87, 778>>>>, <<7833, <<89, 778>>>>, <<7834, <<65, 702>>>>,
      <<8016, <<933, 787>>>>, <<8018, <<933, 787, 768>>>>,
      <<8020, <<933, 787, 769>>>>, <<8022, <<933, 787, 834>>>>,
      <<8114, <<8122, 837>>>>, <<8116, <<902, 837>>>>, <<8118, <<913, 834>>>>,
      <<8119, <<913, 834, 837>>>>, <<8130, <<8138, 837>>>>,
      <<8132, <<905, 837>>>>, <<8134, <<919, 834>>>>,
      <<8135, <<919, 834, 837>>>>, <<8146, <<921, 776, 768>>>>,
      <<8147, <<921, 776, 769>>>>, <<8150, <<921, 834>>>>,
      <<8151, <<921, 776, 834>>>>, <<8162, <<933, 776, 768>>>>,
      <<8163, <<933, 776, 769>>>>, <<8164, <<929, 787>>>>,
      <<8166, <<933, 834>>>>, <<8167, <<933, 776, 834>>>>,
      <<8178, <<8186, 837>>>>, <<8180, <<911, 837>>>>, <<8182, <<937, 834>>>>,
      <<8183, <<937, 834, 837>>>>, <<64256, <<70, 102>>>>,
      <<64257, <<70, 105>>>>, <<64258, <<70, 108>>>>,
      <<64259, <<70, 102, 105>>>>, <<64260, <<70, 102, 108>>>>,
      <<64261, <<83, 116>>>>, <<64262, <<83, 116>>>>,
      <<64275, <<1348, 1398>>>>, <<64276, <<1348, 1381>>>>,
      <<64277, <<1348, 1387>>>>, <<64278, <<1358, 1398>>>>,
      <<64279, <<1348, 1389>>>>
    }

InRanges(c, ranges) == \E r \in ranges : r[1] <= c /\ c <= r[2]
InRun(c, r) == r[1] <= c /\ c <= r[2] /\ (c - r[1]) % r[3] = 0

\* The image of c under a case mapping: a sequence, since one character
\* may become two or three.
MapChar(c, runs, special) ==
    IF \E p \in special : p[1] = c
    THEN (CHOOSE p \in special : p[1] = c)[2]
    ELSE IF \E r \in runs : InRun(c, r)
         THEN <<c + (CHOOSE r \in runs : InRun(c, r))[4]>>
    ELSE <<c>>

UpperOf(c) == MapChar(c, UpperRuns, UpperSpecial)
LowerOf(c) == MapChar(c, LowerRuns, LowerSpecial)
TitleOf(c) == MapChar(c, TitleRuns, TitleSpecial)

IsCased(c) == InRanges(c, CasedRanges)
IsCaseIgnorable(c) == InRanges(c, CaseIgnorableRanges)

\* The nearest position before i (after i) whose character is not
\* case-ignorable, or 0 (Len(s) + 1) when there is none.
Before(s, i) ==
    IF \A j \in 1..(i - 1) : IsCaseIgnorable(s[j]) THEN 0
    ELSE CHOOSE j \in 1..(i - 1) :
             /\ ~IsCaseIgnorable(s[j])
             /\ \A k \in (j + 1)..(i - 1) : IsCaseIgnorable(s[k])

After(s, i) ==
    IF \A j \in (i + 1)..Len(s) : IsCaseIgnorable(s[j]) THEN Len(s) + 1
    ELSE CHOOSE j \in (i + 1)..Len(s) :
             /\ ~IsCaseIgnorable(s[j])
             /\ \A k \in (i + 1)..(j - 1) : IsCaseIgnorable(s[k])

\* A capital sigma (931) ends a word when a cased character precedes it
\* and none follows it.
CasedAt(s, j) == j >= 1 /\ j <= Len(s) /\ IsCased(s[j])
IsFinalSigma(s, i) == CasedAt(s, Before(s, i)) /\ ~CasedAt(s, After(s, i))

\* The lower case of s[i]: a capital sigma becomes the final sigma (962)
\* at the end of a word and the small sigma (963) elsewhere.
LowerAt(s, i) ==
    IF s[i] = 931 THEN (IF IsFinalSigma(s, i) THEN <<962>> ELSE <<963>>)
    ELSE LowerOf(s[i])

\* name.upper()
StrUpper(s) == Concat([i \in 1..Len(s) |-> UpperOf(s[i])])

\* name.title(): a character is title-cased when it starts a word (follows
\* no cased character) and lower-cased otherwise.
StrTitle(s) ==
    Concat([i \in 1..Len(s) |->
        IF i > 1 /\ IsCased(s[i - 1]) THEN LowerAt(s, i) ELSE TitleOf(s[i])])

(***************************************************************************)
(* Floats.                                                                 *)
(***************************************************************************)
Dec(sign, digits, exp) ==
    [nan |-> FALSE, inf |-> 0, sign |-> sign, digits |-> digits, exp |-> exp]
FloatNaN == [nan |-> TRUE, inf |-> 0, sign |-> 1, digits |-> <<>>, exp |-> 0]
FloatInf(sign) ==
    [nan |-> FALSE, inf |-> sign, sign |-> sign, digits |-> <<>>, exp |-> 0]
FloatZero(sign) == Dec(sign, <<>>, 0)
NoFloat == FloatZero(1)

\* The base of the decimal digits.
Base == 10

\* ds without its leading (trailing) zeros
DropLeading(ds) ==
    IF \A i \in 1..Len(ds) : ds[i] = 0 THEN <<>>
    ELSE SubSeq(ds, CHOOSE i \in 1..Len(ds) :
                        ds[i] # 0 /\ \A j \in 1..(i - 1) : ds[j] = 0,
                Len(ds))

DropTrailing(ds) ==
    IF \A i \in 1..Len(ds) : ds[i] = 0 THEN <<>>
    ELSE SubSeq(ds, 1, CHOOSE i \in 1..Len(ds) :
                           ds[i] # 0 /\ \A j \in (i + 1)..Len(ds) : ds[j] = 0)

\* The decimal digits of a natural number, most significant first.
RECURSIVE NatDigits(_)
NatDigits(n) ==
    IF n < Base THEN <<n>> ELSE NatDigits(n \div Base) \o <<n % Base>>

RECURSIVE DigitsToInt(_)
DigitsToInt(ds) ==
    IF ds = <<>> THEN 0
    ELSE DigitsToInt(SubSeq(ds, 1, Len(ds) - 1)) * Base + ds[Len(ds)]

\* -1, 0 or 1 as the fraction 0.a is below, equal to or above 0.b.
DigitAt(ds, i) == IF i <= Len(ds) THEN ds[i] ELSE 0
Differ(a, b) ==
    {i \in 1..(Len(a) + Len(b)) : DigitAt(a, i) # DigitAt(b, i)}
FirstOf(positions) == CHOOSE i \in positions : \A j \in positions : i <= j
CompareAt(a, b, i) == IF DigitAt(a, i) < DigitAt(b, i) THEN -1 ELSE 1
CompareDigits(a, b) ==
    IF Differ(a, b) = {} THEN 0 ELSE CompareAt(a, b, FirstOf(Differ(a, b)))

\* |f| <= |g|, for finite floats that are not zero
MagLe(f, g) ==
    \/ f.exp < g.exp
    \/ f.exp = g.exp /\ CompareDigits(f.digits, g.digits) <= 0

(***************************************************************************)
(* Naturals of any size, held by their decimal digits.  A product by an    *)
(* int m below 2^27 is formed digit by digit, without a carry chain: the   *)
(* products d * m, each of at most ten digits, are spread over the         *)
(* positions their digits belong to, which leaves at most 90 in a          *)
(* position; moving the tens one position up twice leaves at most 10; and  *)
(* a last carry passes through the nines above a 10.                       *)
(***************************************************************************)
At(xs, k) == IF k <= Len(xs) THEN xs[k] ELSE 0

RECURSIVE Power(_, _)
Power(b, k) == IF k = 0 THEN 1 ELSE b * Power(b, k - 1)

\* The products of the digits by m, below ten positions of room.
Raw(ds, m) ==
    SubSeq([k \in 1..(Len(ds) + 10) |-> IF k > 10 THEN ds[k - 10] * m ELSE 0],
           1, Len(ds) + 10)

Spread(xs) ==
    SubSeq([k \in 1..Len(xs) |->
               (At(xs, k) % 10) + ((At(xs, k + 1) \div 10) % 10)
               + ((At(xs, k + 2) \div 100) % 10)
               + ((At(xs, k + 3) \div 1000) % 10)
               + ((At(xs, k + 4) \div 10000) % 10)
               + ((At(xs, k + 5) \div 100000) % 10)
               + ((At(xs, k + 6) \div 1000000) % 10)
               + ((At(xs, k + 7) \div 10000000) % 10)
               + ((At(xs, k + 8) \div 100000000) % 10)
               + ((At(xs, k + 9) \div 1000000000) % 10)],
           1, Len(xs))

Fold(xs) ==
    SubSeq([k \in 1..Len(xs) |-> (xs[k] % Base) + (At(xs, k + 1) \div Base)],
           1, Len(xs))

\* A carry enters position k when the nearest position below it that
\* does not hold a 9 holds a 10.
CarryIn(xs, k) ==
    /\ k < Len(xs)
    /\ xs[k + 1] >= Base - 1
    /\ \E j \in (k + 1)..Len(xs) :
           xs[j] = Base /\ \A i \in (k + 1)..(j - 1) : xs[i] = Base - 1
Ripple(xs) ==
    [k \in 1..Len(xs) |-> (xs[k] + (IF CarryIn(xs, k) THEN 1 ELSE 0)) % Base]

\* a * m
MulDigits(ds, m) == DropLeading(Ripple(Fold(Fold(Spread(Raw(ds, m))))))

\* a * b^k, for b = 2 or b = 5, by factors below 2^27
MaxPower(b) == IF b = 2 THEN 27 ELSE 11
RECURSIVE MulPow(_, _, _)
MulPow(ds, b, k) ==
    IF ds = <<>> \/ k <= MaxPower(b) THEN MulDigits(ds, Power(b, k))
    ELSE MulPow(MulPow(ds, b, k \div 2), b, k - k \div 2)

ZeroDigits(n) == [i \in 1..n |-> 0]

\* a + 1: the nines that end a are turned to zeros and the digit before
\* them grows by one.
NinesFrom(ds) ==
    CHOOSE i \in 1..(Len(ds) + 1) :
        /\ \A j \in i..Len(ds) : ds[j] = Base - 1
        /\ i = 1 \/ ds[i - 1] # Base - 1
IncAt(ds, i) ==
    IF i = 1 THEN <<1>> \o ZeroDigits(Len(ds))
    ELSE SubSeq(ds, 1, i - 2) \o <<ds[i - 1] + 1>> \o ZeroDigits(Len(ds) - i + 1)
Inc(ds) == IncAt(ds, NinesFrom(ds))

(***************************************************************************)
(* The double nearest to a decimal.  A double is m * 2^(-t) with a         *)
(* significand m of 53 bits, 2^52 <= m < 2^53, or with a smaller m and     *)
(* t = 1074 (a subnormal); m is held by its decimal digits.  The finite    *)
(* doubles have t >= -971.                                                 *)
(***************************************************************************)
TwoTo52 == <<4, 5, 0, 3, 5, 9, 9, 6, 2, 7, 3, 7, 0, 4, 9, 6>>
TwoTo53 == <<9, 0, 0, 7, 1, 9, 9, 2, 5, 4, 7, 4, 0, 9, 9, 2>>

\* The number w * 10^p: the count of digits of its integer part, and
\* whether it is below 2^52, or 2^53 or above.
IntLen(w, p) == Len(w) + p
BelowRange(w, p) ==
    \/ IntLen(w, p) < Len(TwoTo52)
    \/ IntLen(w, p) = Len(TwoTo52) /\ CompareDigits(w, TwoTo52) < 0
AboveRange(w, p) ==
    \/ IntLen(w, p) > Len(TwoTo53)
    \/ IntLen(w, p) = Len(TwoTo53) /\ CompareDigits(w, TwoTo53) >= 0

\* w * 10^p = v * 2^t is doubled (t grows) or halved (w * 5 / 10, t
\* falls) until it lies in [2^52, 2^53) or t is 1074.  Far from the range
\* it moves by several powers of two at a time: 2^3 < 10, so a number with
\* an integer part of n digits stays below 10^15 < 2^52 when multiplied by
\* 2^(3 * (15 - n)), and stays above 10^16 > 2^53 when divided by
\* 2^(3 * (n - 17)).
Settled(s) ==
    /\ ~(s.t < 1074 /\ BelowRange(s.w, s.p))
    /\ ~AboveRange(s.w, s.p)

Least(a, b) == IF a < b THEN a ELSE b
Doubled(s, k) == [w |-> MulPow(s.w, 2, k), p |-> s.p, t |-> s.t + k]
Halved(s, k) == [w |-> MulPow(s.w, 5, k), p |-> s.p - k, t |-> s.t - k]

Step(s) ==
    IF s.t < 1074 /\ BelowRange(s.w, s.p)
    THEN IF IntLen(s.w, s.p) < 15
         THEN Doubled(s, Least(3 * (15 - IntLen(s.w, s.p)), 1074 - s.t))
         ELSE Doubled(s, 1)
    ELSE IF IntLen(s.w, s.p) > 17 THEN Halved(s, 3 * (IntLen(s.w, s.p) - 17))
    ELSE Halved(s, 1)

RECURSIVE Scaled(_)
Scaled(s) == IF Settled(s) THEN s ELSE Scaled(Step(s))

\* The integer part and the fraction digits of w * 10^p.
IntPart(w, p) ==
    IF p >= 0 THEN w \o ZeroDigits(p) ELSE SubSeq(w, 1, Len(w) + p)
FracPart(w, p) ==
    IF p >= 0 THEN <<>>
    ELSE IF Len(w) + p >= 0 THEN SubSeq(w, Len(w) + p + 1, Len(w))
    ELSE ZeroDigits(0 - (Len(w) + p)) \o w

\* Round half to even.
IsOdd(ds) == ds # <<>> /\ ds[Len(ds)] % 2 = 1
RoundsUp(int, frac) ==
    \/ CompareDigits(frac, <<5>>) > 0
    \/ CompareDigits(frac, <<5>>) = 0 /\ IsOdd(int)
Nearest(int, frac) == IF RoundsUp(int, frac) THEN Inc(int) ELSE int

Double(m, t) ==
    IF m = TwoTo53 THEN [m |-> TwoTo52, t |-> t - 1] ELSE [m |-> m, t |-> t]
Packed(s) == Double(Nearest(IntPart(s.w, s.p), FracPart(s.w, s.p)), s.t)

\* The double nearest to ds * 10^q, for digits ds without a leading zero.
ToBinary(ds, q) == Packed(Scaled([w |-> ds, p |-> q, t |-> 0]))

\* The double nearest to b * m.
TimesBinary(b, m) ==
    Packed(Scaled([w |-> MulDigits(b.m, m), p |-> 0, t |-> b.t]))

(***************************************************************************)
(* The float of a double: the shortest decimal that converts back to it,   *)
(* which is what Python prints.  No two decimals of 15 digits convert to   *)
(* the same normal double, 17 digits tell any two doubles apart.           *)
(***************************************************************************)
\* m * 2^(-t) = w * 10^p exactly
Expanded(b) ==
    IF b.t >= 0 THEN [w |-> MulPow(b.m, 5, b.t), p |-> 0 - b.t]
    ELSE [w |-> MulPow(b.m, 2, 0 - b.t), p |-> 0]

\* The first k digits of w, and w rounded to k digits to the nearest and
\* to the other side.
Leading(w, k) == SubSeq(w, 1, IF k < Len(w) THEN k ELSE Len(w))
Trailing(w, k) == SubSeq(w, k + 1, Len(w))
Near(w, k) == Nearest(Leading(w, k), Trailing(w, k))
Far(w, k) ==
    IF RoundsUp(Leading(w, k), Trailing(w, k)) THEN Leading(w, k)
    ELSE Inc(Leading(w, k))

\* The decimal 0.c * 10^e, for digits c, and whether it converts to b.
Canon(sign, c, e) == Dec(sign, DropTrailing(c), e)
RoundTrips(c, e, b) ==
    ToBinary(DropTrailing(c), e - Len(DropTrailing(c))) = b

\* e is the exponent of 0.w; rounding up may carry into one more digit.
Carried(w, k, c) == IF Len(c) > Len(Leading(w, k)) THEN 1 ELSE 0

RECURSIVE Shortest(_, _, _, _, _)
Shortest(sign, b, w, e, k) ==
    IF k >= 17 \/ k >= Len(w) \/ RoundTrips(Near(w, k), e + Carried(w, k, Near(w, k)), b)
    THEN Canon(sign, Near(w, k), e + Carried(w, k, Near(w, k)))
    ELSE IF RoundTrips(Far(w, k), e + Carried(w, k, Far(w, k)), b)
         THEN Canon(sign, Far(w, k), e + Carried(w, k, Far(w, k)))
    ELSE Shortest(sign, b, w, e, k + 1)

Printed(sign, b, x) ==
    Shortest(sign, b, x.w, Len(x.w) + x.p,
             IF CompareDigits(ZeroDigits(Len(TwoTo52) - Len(b.m)) \o b.m,
                              TwoTo52) < 0
             THEN 1 ELSE 15)

FromBinary(sign, b) ==
    IF b.m = <<>> THEN FloatZero(sign)
    ELSE IF b.t < -971 THEN FloatInf(sign)
    ELSE Printed(sign, b, Expanded(b))

\* A finite decimal as a float.  From 10^309 on it is an infinity and
\* below 10^-324 a zero; a decimal of at most 15 digits well within the
\* range of the normal doubles is the float it converts to.
Rounded(f) ==
    IF f.digits = <<>> THEN f
    ELSE IF f.exp > 309 THEN FloatInf(f.sign)
    ELSE IF f.exp < -323 THEN FloatZero(f.sign)
    ELSE IF Len(f.digits) <= 15 /\ -300 <= f.exp /\ f.exp <= 300 THEN f
    ELSE FromBinary(f.sign, ToBinary(f.digits, f.exp - Len(f.digits)))

\* sign * 0.ds * 10^exp for any digit sequence ds
LeadingZeros(ds) == Len(ds) - Len(DropLeading(ds))
Normal(sign, ds, exp) ==
    IF DropLeading(ds) = <<>> THEN FloatZero(sign)
    ELSE Rounded(Dec(sign, DropTrailing(DropLeading(ds)),
                     exp - LeadingZeros(ds)))

\* float(k) of an int k
Abs(k) == IF k < 0 THEN 0 - k ELSE k
IntFloat(k) ==
    Normal(IF k < 0 THEN -1 ELSE 1, NatDigits(Abs(k)), Len(NatDigits(Abs(k))))

\* The digits of the fraction r / den, for 0 <= r < den with den a divisor
\* of a power of ten.
RECURSIVE FracDigits(_, _)
FracDigits(r, den) ==
    IF r = 0 THEN <<>>
    ELSE <<(r * Base) \div den>> \o FracDigits((r * Base) % den, den)

\* The float n / Scale.
FloatOf(n) ==
    Normal(IF n < 0 THEN -1 ELSE 1,
           NatDigits(Abs(n) \div Scale) \o FracDigits(Abs(n) % Scale, Scale),
           Len(NatDigits(Abs(n) \div Scale)))

\* f <= g, for a finite g.  Comparisons with nan are false.
Signum(f) == IF f.digits = <<>> THEN 0 ELSE f.sign
FiniteLe(f, g) ==
    IF Signum(f) # Signum(g) THEN Signum(f) < Signum(g)
    ELSE IF Signum(f) = 0 THEN TRUE
    ELSE IF Signum(f) > 0 THEN MagLe(f, g)
    ELSE MagLe(g, f)
FloatLe(f, g) == ~f.nan /\ (f.inf < 0 \/ (f.inf = 0 /\ FiniteLe(f, g)))

\* f * m for an int m from 1 to 100, as the double product rounds it.  A
\* decimal N / 10^d of at most 9 digits with 5^d a divisor of N is a double
\* exactly, and so is its product, which has at most 12 digits.
FracLen(f) == Len(f.digits) - f.exp
IsBinary(f) ==
    /\ Len(f.digits) <= 9
    /\ f.exp <= 15
    /\ FracLen(f) <= 9
    /\ FracLen(f) <= 0 \/ DigitsToInt(f.digits) % Power(5, FracLen(f)) = 0
Shifted(f, product) ==
    Normal(f.sign, product, f.exp + Len(product) - Len(f.digits))
FloatTimes(f, m) ==
    IF f.nan \/ f.inf # 0 \/ f.digits = <<>> THEN f
    ELSE IF IsBinary(f) THEN Shifted(f, MulDigits(f.digits, m))
    ELSE FromBinary(f.sign,
                    TimesBinary(ToBinary(f.digits, f.exp - Len(f.digits)), m))

\* The JSON numbers with a fraction.
JFloat(n) == JNum(FloatOf(n))
JNaN == JNum(FloatNaN)
JInf(sign) == JNum(FloatInf(sign))

\* The number of zeros in the decimal form of the "huge" int, 10**400.
HugeZeros == 400

\* The keys the program looks up and the inputs carry, by name.
KeySpellings ==
    { <<"apy", <<"a", "p", "y">>>>,
      <<"apr", <<"a", "p", "r">>>>,
      <<"rewards_apy",
         <<"r", "e", "w", "a", "r", "d", "s", "_", "a", "p", "y">>>>,
      <<"estimated_apy",
         <<"e", "s", "t", "i", "m", "a", "t", "e", "d", "_", "a", "p",
           "y">>>>,
      <<"rewardRate", <<"r", "e", "w", "a", "r", "d", "R", "a", "t", "e">>>>,
      <<"rewardsRate",
         <<"r", "e", "w", "a", "r", "d", "s", "R", "a", "t", "e">>>>,
      <<"asset_name", <<"a", "s", "s", "e", "t", "_", "n", "a", "m", "e">>>>,
      <<"asset", <<"a", "s", "s", "e", "t">>>>,
      <<"name", <<"n", "a", "m", "e">>>>,
      <<"asset_symbol",
         <<"a", "s", "s", "e", "t", "_", "s", "y", "m", "b", "o", "l">>>>,
      <<"rate", <<"r", "a", "t", "e">>>>,
      <<"reward_rate",
         <<"r", "e", "w", "a", "r", "d", "_", "r", "a", "t", "e">>>>,
      <<"displayName",
         <<"d", "i", "s", "p", "l", "a", "y", "N", "a", "m", "e">>>>,
      <<"symbol", <<"s", "y", "m", "b", "o", "l">>>>,
      <<"yieldRate", <<"y", "i", "e", "l", "d", "R", "a", "t", "e">>>>,
      <<"currency", <<"c", "u", "r", "r", "e", "n", "c", "y">>>>,
      <<"configAnnualInterestRate",
         <<"c", "o", "n", "f", "i", "g", "A", "n", "n", "u", "a", "l", "I",
           "n", "t", "e", "r", "e", "s", "t", "R", "a", "t", "e">>>>,
      <<"maxApy", <<"m", "a", "x", "A", "p", "y">>>>,
      <<"productName",
         <<"p", "r", "o", "d", "u", "c", "t", "N", "a", "m", "e">>>>,
      <<"baseRate", <<"b", "a", "s", "e", "R", "a", "t", "e">>>>,
      <<"data", <<"d", "a", "t", "a">>>>,
      <<"result", <<"r", "e", "s", "u", "l", "t">>>>,
      <<"items", <<"i", "t", "e", "m", "s">>>>,
      <<"rates", <<"r", "a", "t", "e", "s">>>>,
      <<"staking", <<"s", "t", "a", "k", "i", "n", "g">>>>,
      <<"total", <<"t", "o", "t", "a", "l">>>>,
      <<"staking_asset",
         <<"s", "t", "a", "k", "i", "n", "g", "_", "a", "s", "s", "e",
           "t">>>>,
      <<"reward_apr", <<"r", "e", "w", "a", "r", "d", "_", "a", "p", "r">>>>,
      <<"ethereum", <<"e", "t", "h", "e", "r", "e", "u", "m">>>>,
      <<"polygon", <<"p", "o", "l", "y", "g", "o", "n">>>>,
      <<"solana", <<"s", "o", "l", "a", "n", "a">>>>,
      <<"kusama", <<"k", "u", "s", "a", "m", "a">>>>,
      <<"DOT", <<"D", "O", "T">>>>,
      <<"USDT.M", <<"U", "S", "D", "T", ".", "M">>>>,
      <<"ETH2.S", <<"E", "T", "H", "2", ".", "S">>>>,
      <<"ADA.S", <<"A", "D", "A", ".", "S">>>> }
Key ==
    [name \in {p[1] : p \in KeySpellings} |->
        S((CHOOSE p \in KeySpellings : p[1] = name)[2])]

Keys(names) == [i \in 1..Len(names) |-> Key[names[i]]]

KV(key, val) == [k |-> key, val |-> val]

\* isinstance(x, dict), isinstance(x, list)
IsDict(j) == j.t = "dict"
IsList(j) == j.t = "list"

\* bool(x): None, False, 0, 0.0, "", {} and [] are false, all else (nan,
\* inf, "0") true.
Truthy(j) ==
    CASE j.t = "null" -> FALSE
      [] j.t = "bool" -> j.v = 1
      [] j.t = "int" -> j.v # 0
      [] j.t = "float" -> j.v.nan \/ j.v.inf # 0 \/ j.v.digits # <<>>
      [] j.t \in {"str", "dict", "list"} -> Len(j.v) > 0
      [] OTHER -> TRUE

\* a or b
PyOr(a, b) == IF Truthy(a) THEN a ELSE b

\* key in mapping
DictHas(d, key) == \E i \in 1..Len(d.v) : d.v[i].k = key

\* mapping[key], for a key that is present
DictAt(d, key) == d.v[CHOOSE i \in 1..Len(d.v) : d.v[i].k = key].val

\* mapping.get(key)
DictGet(d, key) == IF DictHas(d, key) THEN DictAt(d, key) ELSE JNull

(***************************************************************************)
(* float(x): the float, or the exception the conversion raises.            *)
(***************************************************************************)
Converted(f) == [exc |-> "none", f |-> f]
ValueError == [exc |-> "ValueError", f |-> NoFloat]

\* A decimal digit of any script, and its value.
IsDigit(c) == \E z \in DigitZeros : z <= c /\ c < z + Base
DigitVal(c) == c - (CHOOSE z \in DigitZeros : z <= c /\ c < z + Base)
AllDigits(s) == \A i \in 1..Len(s) : IsDigit(s[i])
DigitVals(s) == [i \in 1..Len(s) |-> DigitVal(s[i])]

\* float() of a string ignores the whitespace around the number.
StripSpace(s) ==
    LET inked == {i \in 1..Len(s) : s[i] \notin Whitespace} IN
    IF inked = {} THEN <<>>
    ELSE SubSeq(s, CHOOSE i \in inked : \A j \in inked : i <= j,
                   CHOOSE i \in inked : \A j \in inked : i >= j)

\* An underscore may stand between two digits, and nowhere else.
GroupedOk(s) ==
    \A i \in 1..Len(s) :
        s[i] = Ord["_"] => /\ i > 1 /\ i < Len(s)
                           /\ IsDigit(s[i - 1]) /\ IsDigit(s[i + 1])

Ungroup(s) == SelectSeq(s, LAMBDA c : c # Ord["_"])

\* The position of the first character of s that is in chars, or
\* Len(s) + 1 when there is none.
Cut(s, chars) ==
    IF \A i \in 1..Len(s) : s[i] \notin chars THEN Len(s) + 1
    ELSE CHOOSE i \in 1..Len(s) :
             s[i] \in chars /\ \A j \in 1..(i - 1) : s[j] \notin chars

\* A leading sign, and the string without it.
SignOf(s) == IF Len(s) > 0 /\ s[1] = Ord["-"] THEN -1 ELSE 1
Unsigned(s) ==
    IF Len(s) > 0 /\ s[1] \in {Ord["+"], Ord["-"]} THEN Tail(s) ELSE s

\* The value of an exponent.  An exponent of seven digits or more is
\* beyond every float, and stands as 999999.
ExpValue(ds) ==
    IF Len(DropLeading(ds)) > 6 THEN 999999 ELSE DigitsToInt(ds)

\* whole [. frac] [e expDigits]: digits only, at least one in the mantissa
\* and, after an "e", at least one in the exponent.
ParseNumber(sign, whole, frac, hasExp, expSign, expDigits) ==
    IF /\ AllDigits(whole) /\ AllDigits(frac) /\ AllDigits(expDigits)
       /\ Len(whole) + Len(frac) > 0
       /\ hasExp => Len(expDigits) > 0
    THEN Converted(Normal(sign, DigitVals(whole \o frac),
                          Len(whole) + expSign * ExpValue(DigitVals(expDigits))))
    ELSE ValueError

ParseMantissa(sign, mant, hasExp, expPart) ==
    ParseNumber(sign, SubSeq(mant, 1, Cut(mant, {Ord["."]}) - 1),
                SubSeq(mant, Cut(mant, {Ord["."]}) + 1, Len(mant)),
                hasExp, SignOf(expPart), Unsigned(expPart))

ParseDecimal(sign, b) ==
    ParseMantissa(sign, SubSeq(b, 1, Cut(b, {Ord["e"], Ord["E"]}) - 1),
                  Cut(b, {Ord["e"], Ord["E"]}) <= Len(b),
                  SubSeq(b, Cut(b, {Ord["e"], Ord["E"]}) + 1, Len(b)))

\* The ASCII capitals of s in lower case.
AsciiLower(s) ==
    [i \in 1..Len(s) |->
        IF Ord["A"] <= s[i] /\ s[i] <= Ord["Z"]
        THEN s[i] + (Ord["a"] - Ord["A"]) ELSE s[i]]

NanWord == S(<<"n", "a", "n">>)
InfWords == {S(<<"i", "n", "f">>), S(<<"i", "n", "f", "i", "n", "i", "t", "y">>)}

\* "nan", "inf" and "infinity" in any case, or a decimal number.
ParseUnsigned(sign, body) ==
    IF AsciiLower(body) = NanWord THEN Converted(FloatNaN)
    ELSE IF AsciiLower(body) \in InfWords THEN Converted(FloatInf(sign))
    ELSE IF ~GroupedOk(body) THEN ValueError
    ELSE ParseDecimal(sign, Ungroup(body))

ParseSigned(s) == ParseUnsigned(SignOf(s), Unsigned(s))

\* float(string): the number the string holds, or a ValueError.
ParseFloat(chars) == ParseSigned(StripSpace(chars))

PyFloat(j) ==
    CASE j.t \in {"int", "bool"} -> Converted(IntFloat(j.v))
      [] j.t = "float" -> Converted(j.v)
      [] j.t = "str" -> ParseFloat(j.v)
      [] j.t = "huge" -> [exc |-> "OverflowError", f |-> NoFloat]
      [] OTHER -> [exc |-> "TypeError", f |-> NoFloat]

(***************************************************************************)
(* _normalize_percentage (lines 136-149).  The result is                   *)
(* [k |-> "none"] for None, [k |-> "val", f |-> float] for a float, and    *)
(* [k |-> "raise", exc |-> type] when an exception leaves the function.    *)
(***************************************************************************)
NzNone == [k |-> "none", f |-> NoFloat, exc |-> "none"]
NzVal(f) == [k |-> "val", f |-> f, exc |-> "none"]
NzRaise(e) == [k |-> "raise", f |-> NoFloat, exc |-> e]

\* lines 141-149, for the outcome c of float(raw_value)
NormalizeConverted(c) ==
    IF c.exc \in {"TypeError", "ValueError"} THEN NzNone
    ELSE IF c.exc # "none" THEN NzRaise(c.exc)
    ELSE IF FloatLe(c.f, IntFloat(0)) THEN NzNone
    ELSE IF FloatLe(c.f, IntFloat(1)) THEN NzVal(FloatTimes(c.f, Hundred))
    ELSE NzVal(c.f)

_normalize_percentage(raw_value) ==
    IF raw_value.t = "null" THEN NzNone
    ELSE NormalizeConverted(PyFloat(raw_value))

(***************************************************************************)
(* _pick_first (lines 152-156).                                            *)
(***************************************************************************)
RECURSIVE PickFrom(_, _, _)
PickFrom(mapping, keys, i) ==
    IF i > Len(keys) THEN JNull
    ELSE IF DictHas(mapping, keys[i]) THEN DictAt(mapping, keys[i])
    ELSE PickFrom(mapping, keys, i + 1)

\* The resolver as it would be with `if mapping.get(key):` for the
\* presence test: a key mapped to 0 or "" is passed over.
RECURSIVE PickTruthyFrom(_, _, _)
PickTruthyFrom(mapping, keys, i) ==
    IF i > Len(keys) THEN JNull
    ELSE IF Truthy(DictGet(mapping, keys[i])) THEN DictAt(mapping, keys[i])
    ELSE PickTruthyFrom(mapping, keys, i + 1)

_pick_first_truthy(mapping, keys) == PickTruthyFrom(mapping, keys, 1)

_pick_first(mapping, keys) == PickFrom(mapping, keys, 1)

\* lines 47-61
STABLECOIN_KEYWORDS ==
    { S(<<"U", "S", "D", "C">>),
      S(<<"U", "S", "D", "T">>),
      S(<<"D", "A", "I">>),
      S(<<"B", "U", "S", "D">>),
      S(<<"T", "U", "S", "D">>),
      S(<<"U", "S", "D", "P">>),
      S(<<"G", "U", "S", "D">>),
      S(<<"U", "S", "D", "D">>),
      S(<<"U", "S", "T", "C">>),
      S(<<"E", "U", "R", "T">>),
      S(<<"F", "R", "A", "X">>),
      S(<<"E", "U", "R", "S">>),
      S(<<"L", "U", "S", "D">>) }

(***************************************************************************)
(* RateRecord (lines 23-32) and what one run of an adapter's generator     *)
(* does: the records it yields, then either exhaustion (exc = "none") or   *)
(* the exception that leaves it.                                           *)
(***************************************************************************)
RateRecord(provider, network, rate, metric, source_url, raw) ==
    [provider |-> provider, network |-> network, rate |-> rate,
     metric |-> metric, source_url |-> source_url, raw |-> raw]

Yielded(recs) == [recs |-> recs, exc |-> "none"]
Raised(recs, e) == [recs |-> recs, exc |-> e]

(***************************************************************************)
(* str(x) of a label: a string is itself, any other value its repr.        *)
(***************************************************************************)
DigitChars(ds) == [i \in 1..Len(ds) |-> Ord["0"] + ds[i]]
Zeros(n) == [i \in 1..n |-> Ord["0"]]

IntStr(k) ==
    IF k < 0 THEN <<Ord["-"]>> \o DigitChars(NatDigits(0 - k))
    ELSE DigitChars(NatDigits(k))

\* repr of a finite float that is not zero, without its sign: positional
\* when the decimal point falls within the first 16 digits or at most
\* four places before them, with an exponent of two digits or more
\* otherwise.
Positional(digits, exp) ==
    IF exp <= 0
    THEN S(<<"0", ".">>) \o Zeros(0 - exp) \o DigitChars(digits)
    ELSE IF exp >= Len(digits)
         THEN DigitChars(digits) \o Zeros(exp - Len(digits)) \o S(<<".", "0">>)
    ELSE DigitChars(SubSeq(digits, 1, exp)) \o <<Ord["."]>>
         \o DigitChars(SubSeq(digits, exp + 1, Len(digits)))

ExpStr(e) ==
    (IF e < 0 THEN <<Ord["-"]>> ELSE <<Ord["+"]>>)
    \o (IF Abs(e) < Base THEN Zeros(1) ELSE <<>>)
    \o DigitChars(NatDigits(Abs(e)))

Scientific(digits, exp) ==
    DigitChars(<<Head(digits)>>)
    \o (IF Len(digits) > 1 THEN <<Ord["."]>> \o DigitChars(Tail(digits))
        ELSE <<>>)
    \o <<Ord["e"]>> \o ExpStr(exp - 1)

FloatStr(f) ==
    IF f.nan THEN NanWord
    ELSE (IF f.sign < 0 THEN <<Ord["-"]>> ELSE <<>>) \o
         (IF f.inf # 0 THEN S(<<"i", "n", "f">>)
          ELSE IF f.digits = <<>> THEN S(<<"0", ".", "0">>)
          ELSE IF -4 < f.exp /\ f.exp <= 16 THEN Positional(f.digits, f.exp)
          ELSE Scientific(f.digits, f.exp))

\* repr of a string: in single quotes, or in double quotes when it holds
\* a single quote and no double quote; the quote, the backslash and the
\* characters that are not printable are escaped.
HexDigits ==
    S(<<"0", "1", "2", "3", "4", "5", "6", "7", "8", "9", "a", "b", "c", "d",
        "e", "f">>)
Hex(n, width) ==
    [i \in 1..width |->
        HexDigits[((n \div Power(Len(HexDigits), width - i)) % Len(HexDigits)) + 1]]

HexEscape(c) ==
    IF c <= 255 THEN S(<<"\\", "x">>) \o Hex(c, 2)
    ELSE IF c <= 65535 THEN S(<<"\\", "u">>) \o Hex(c, 4)
    ELSE S(<<"\\", "U">>) \o Hex(c, 8)

Escape(c, quote) ==
    IF c = quote \/ c = Ord["\\"] THEN <<Ord["\\"], c>>
    ELSE IF c = 9 THEN S(<<"\\", "t">>)
    ELSE IF c = 10 THEN S(<<"\\", "n">>)
    ELSE IF c = 13 THEN S(<<"\\", "r">>)
    ELSE IF InRanges(c, NonPrintableRanges) THEN HexEscape(c)
    ELSE <<c>>

Holds(s, c) == \E i \in 1..Len(s) : s[i] = c
QuoteOf(s) ==
    IF Holds(s, Ord["'"]) /\ ~Holds(s, Ord["\""]) THEN Ord["\""] ELSE Ord["'"]
Quoted(s, quote) ==
    <<quote>> \o Concat([i \in 1..Len(s) |-> Escape(s[i], quote)]) \o <<quote>>
StrRepr(s) == Quoted(s, QuoteOf(s))

\* The sequences of seqs with sep between them.
Join(seqs, sep) ==
    Concat([i \in 1..(2 * Len(seqs) - 1) |->
               IF i % 2 = 1 THEN seqs[(i + 1) \div 2] ELSE sep])

RECURSIVE PyRepr(_)
PyRepr(j) ==
    CASE j.t = "str" -> StrRepr(j.v)
      [] j.t = "int" -> IntStr(j.v)
      [] j.t = "float" -> FloatStr(j.v)
      [] j.t = "bool" -> IF j.v = 1 THEN S(<<"T", "r", "u", "e">>)
                         ELSE S(<<"F", "a", "l", "s", "e">>)
      [] j.t = "null" -> S(<<"N", "o", "n", "e">>)
      [] j.t = "huge" -> <<Ord["1"]>> \o Zeros(HugeZeros)
      [] j.t = "list" ->
            <<Ord["["]>>
            \o Join([i \in 1..Len(j.v) |-> PyRepr(j.v[i])], S(<<",", " ">>))
            \o <<Ord["]"]>>
      [] j.t = "dict" ->
            <<Ord["{"]>>
            \o Join([i \in 1..Len(j.v) |->
                        StrRepr(j.v[i].k) \o S(<<":", " ">>) \o PyRepr(j.v[i].val)],
                    S(<<",", " ">>))
            \o <<Ord["}"]>>

PyStr(j) == IF j.t = "str" THEN j.v ELSE PyRepr(j)

Unknown == S(<<"U", "n", "k", "n", "o", "w", "n">>)
Ethereum == S(<<"E", "t", "h", "e", "r", "e", "u", "m">>)

(***************************************************************************)
(* _fetch_json (lines 64-77).  The response is what requests.get met:      *)
(* "ok" with a decoded body, "http_error" (raise_for_status), "invalid_json"*)
(* (response.json() fails), or "transport" (requests.get itself raises a   *)
(* ConnectionError or Timeout, which is no RateFetchError).                *)
(***************************************************************************)
_fetch_json(resp) ==
    CASE resp.status = "transport" -> [exc |-> "RequestException", body |-> JNull]
      [] resp.status = "http_error" -> [exc |-> "RateFetchError", body |-> JNull]
      [] resp.status = "invalid_json" -> [exc |-> "RateFetchError", body |-> JNull]
      [] OTHER -> [exc |-> "none", body |-> resp.body]

\* payload.get("data") if isinstance(payload, dict) else None
GetIfDict(j, key) == IF IsDict(j) THEN DictGet(j, key) ELSE JNull

(***************************************************************************)
(* fetch_lido (lines 80-109).                                              *)
(***************************************************************************)
LidoUrl == "https://stake.lido.fi/api/networks"

RECURSIVE LidoLoop(_, _, _)
LidoLoop(networks, i, acc) ==
    IF i > Len(networks.v) THEN Yielded(acc)
    ELSE LET network_name == networks.v[i].k
             details == networks.v[i].val
         IN
         IF ~IsDict(details) THEN LidoLoop(networks, i + 1, acc)
         ELSE LET metric_name == IF DictHas(details, Key["apy"]) THEN "apy" ELSE "apr"
                  raw_rate == DictGet(details, Key[metric_name])
                  c == PyFloat(raw_rate)
              IN
              IF raw_rate.t = "null" THEN LidoLoop(networks, i + 1, acc)
              ELSE IF c.exc \in {"TypeError", "ValueError"}
                   THEN LidoLoop(networks, i + 1, acc)
              ELSE IF c.exc # "none" THEN Raised(acc, c.exc)
              ELSE LidoLoop(networks, i + 1, Append(acc,
                       RateRecord("Lido",
                           StrTitle(PyStr(PyOr(DictGet(details, Key["displayName"]),
                                               JStr(network_name)))),
                           c.f, metric_name, LidoUrl, details)))

fetch_lido(resp) ==
    LET fj == _fetch_json(resp)
        payload == fj.body
    IN
    IF fj.exc # "none" THEN Raised(<<>>, fj.exc)
    \* payload.get on a list, a string, a number or None
    ELSE IF ~IsDict(payload) THEN Raised(<<>>, "AttributeError")
    ELSE LET networks == PyOr(DictGet(payload, Key["data"]), payload) IN
         IF ~IsDict(networks) THEN Raised(<<>>, "RateFetchError")
         ELSE LidoLoop(networks, 1, <<>>)

(***************************************************************************)
(* fetch_rocket_pool (lines 112-133).                                      *)
(***************************************************************************)
RocketPoolUrl == "https://api.rocketpool.net/api/apr"

fetch_rocket_pool(resp) ==
    LET fj == _fetch_json(resp)
        payload == fj.body
        data == GetIfDict(payload, Key["data"])
    IN
    IF fj.exc # "none" THEN Raised(<<>>, fj.exc)
    ELSE IF ~IsDict(data) THEN Raised(<<>>, "RateFetchError")
    ELSE LET staking_rate == PyOr(DictGet(data, Key["staking"]), DictGet(data, Key["total"]))
             c == PyFloat(staking_rate)
         IN
         IF staking_rate.t = "null" THEN Raised(<<>>, "RateFetchError")
         ELSE IF c.exc # "none" THEN Raised(<<>>, c.exc)
         ELSE Yielded(<<RateRecord("Rocket Pool", Ethereum, c.f, "apr",
                                   RocketPoolUrl, data)>>)

(***************************************************************************)
(* fetch_kraken (lines 335-363).                                           *)
(***************************************************************************)
KrakenUrl == "https://api.kraken.com/0/public/Staking/Assets"

\* line 349
KrakenApr(details) ==
    PyOr(PyOr(DictGet(details, Key["apy"]), DictGet(details, Key["apr"])),
         DictGet(details, Key["reward_apr"]))

RECURSIVE KrakenLoop(_, _, _)
KrakenLoop(result, i, acc) ==
    IF i > Len(result.v) THEN Yielded(acc)
    ELSE LET asset_code == result.v[i].k
             details == result.v[i].val
         IN
         IF ~IsDict(details) THEN KrakenLoop(result, i + 1, acc)
         ELSE LET network == PyOr(DictGet(details, Key["staking_asset"]),
                                  JStr(asset_code))
                  apr == KrakenApr(details)
                  c == PyFloat(apr)
              IN
              IF apr.t = "null" THEN KrakenLoop(result, i + 1, acc)
              ELSE IF c.exc \in {"TypeError", "ValueError"}
                   THEN KrakenLoop(result, i + 1, acc)
              ELSE IF c.exc # "none" THEN Raised(acc, c.exc)
              ELSE KrakenLoop(result, i + 1, Append(acc,
                       RateRecord("Kraken", PyStr(network), c.f, "apr",
                                  KrakenUrl, details)))

fetch_kraken(resp) ==
    LET fj == _fetch_json(resp)
        payload == fj.body
        result == GetIfDict(payload, Key["result"])
    IN
    IF fj.exc # "none" THEN Raised(<<>>, fj.exc)
    ELSE IF ~IsDict(result) THEN Raised(<<>>, "RateFetchError")
    ELSE KrakenLoop(result, 1, <<>>)

(***************************************************************************)
(* The product loop of the five list-shaped adapters (lines 168-190,       *)
(* 203-225, 238-260, 275-297, 310-332): the same statements, with the      *)
(* provider's name, rate aliases, label aliases, metric and URL.           *)
(***************************************************************************)
RECURSIVE ProductLoop(_, _, _, _)
ProductLoop(products, i, acc, cfg) ==
    IF i > Len(products.v) THEN Yielded(acc)
    ELSE LET product == products.v[i] IN
         IF ~IsDict(product) THEN ProductLoop(products, i + 1, acc, cfg)
         ELSE LET rate_value == _normalize_percentage(_pick_first(product, cfg.rates))
                  network == _pick_first(product, cfg.labels)
              IN
              IF rate_value.k = "raise" THEN Raised(acc, rate_value.exc)
              ELSE IF rate_value.k = "none"
                   THEN ProductLoop(products, i + 1, acc, cfg)
              ELSE ProductLoop(products, i + 1, Append(acc,
                       RateRecord(cfg.provider,
                                  PyStr(PyOr(network, JStr(Unknown))),
                                  rate_value.f, cfg.metric, cfg.url, product)),
                       cfg)

\* lines 159-190
CoinbaseCfg ==
    [provider |-> "Coinbase", metric |-> "apy",
     url |-> "https://api.coinbase.com/v2/staking/products",
     rates |-> Keys(<<"apy", "apr", "rewards_apy", "estimated_apy", "rewardRate",
                 "rewardsRate">>),
     labels |-> Keys(<<"asset_name", "asset", "name", "asset_symbol">>)]

fetch_coinbase(resp) ==
    LET fj == _fetch_json(resp)
        products == GetIfDict(fj.body, Key["data"])
    IN
    IF fj.exc # "none" THEN Raised(<<>>, fj.exc)
    ELSE IF ~IsList(products) THEN Raised(<<>>, "RateFetchError")
    ELSE ProductLoop(products, 1, <<>>, CoinbaseCfg)

\* lines 193-225
CryptoComCfg ==
    [provider |-> "Crypto.com", metric |-> "apy",
     url |-> "https://crypto.com/earn/api/v2/products",
     rates |-> Keys(<<"rate", "apy", "apr", "reward_rate">>),
     labels |-> Keys(<<"displayName", "asset", "symbol", "name">>)]

fetch_crypto_com(resp) ==
    LET fj == _fetch_json(resp)
        data == GetIfDict(fj.body, Key["data"])
        products == GetIfDict(data, Key["items"])
    IN
    IF fj.exc # "none" THEN Raised(<<>>, fj.exc)
    ELSE IF ~IsList(products) THEN Raised(<<>>, "RateFetchError")
    ELSE ProductLoop(products, 1, <<>>, CryptoComCfg)

\* lines 228-260
KuCoinCfg ==
    [provider |-> "KuCoin", metric |-> "apr",
     url |-> "https://www.kucoin.com/_api/earning/earn/product/list?page=1&pageSize=200&status=ALL&type=ALL",
     rates |-> Keys(<<"apr", "apy", "yieldRate", "rate">>),
     labels |-> Keys(<<"currency", "name", "displayName">>)]

fetch_kucoin(resp) ==
    LET fj == _fetch_json(resp)
        data == GetIfDict(fj.body, Key["data"])
        products == GetIfDict(data, Key["items"])
    IN
    IF fj.exc # "none" THEN Raised(<<>>, fj.exc)
    ELSE IF ~IsList(products) THEN Raised(<<>>, "RateFetchError")
    ELSE ProductLoop(products, 1, <<>>, KuCoinCfg)

\* lines 263-297
BinanceCfg ==
    [provider |-> "Binance", metric |-> "apr",
     url |-> "https://www.binance.com/bapi/earn/v2/friendly/pos/product/list",
     rates |-> Keys(<<"configAnnualInterestRate", "apr", "apy", "maxApy">>),
     labels |-> Keys(<<"asset", "productName", "displayName">>)]

fetch_binance(resp) ==
    LET fj == _fetch_json(resp)
        data == GetIfDict(fj.body, Key["data"])
    IN
    IF fj.exc # "none" THEN Raised(<<>>, fj.exc)
    ELSE IF ~IsDict(data) THEN Raised(<<>>, "RateFetchError")
    ELSE LET products == PyOr(PyOr(DictGet(data, Key["result"]), DictGet(data, Key["data"])),
                              JList(<<>>))
         IN
         IF ~IsList(products) THEN Raised(<<>>, "RateFetchError")
         ELSE ProductLoop(products, 1, <<>>, BinanceCfg)

\* lines 300-332
NexoCfg ==
    [provider |-> "Nexo", metric |-> "apy",
     url |-> "https://platform.nexo.io/api/v2/earn/rates",
     rates |-> Keys(<<"rate", "apy", "apr", "baseRate">>),
     labels |-> Keys(<<"currency", "symbol", "name">>)]

fetch_nexo(resp) ==
    LET fj == _fetch_json(resp)
        data == GetIfDict(fj.body, Key["data"])
        products == GetIfDict(data, Key["rates"])
    IN
    IF fj.exc # "none" THEN Raised(<<>>, fj.exc)
    ELSE IF ~IsList(products) THEN Raised(<<>>, "RateFetchError")
    ELSE ProductLoop(products, 1, <<>>, NexoCfg)

(***************************************************************************)
(* PROVIDERS (lines 366-375): the registry, in registration order.         *)
(***************************************************************************)
PROVIDERS ==
    <<"lido", "rocket_pool", "kraken", "coinbase", "crypto_com", "kucoin",
      "binance", "nexo">>

\* PROVIDERS[name](): one full run of the named adapter's generator.
RunFetcher(name, resp) ==
    CASE name = "lido" -> fetch_lido(resp)
      [] name = "rocket_pool" -> fetch_rocket_pool(resp)
      [] name = "kraken" -> fetch_kraken(resp)
      [] name = "coinbase" -> fetch_coinbase(resp)
      [] name = "crypto_com" -> fetch_crypto_com(resp)
      [] name = "kucoin" -> fetch_kucoin(resp)
      [] name = "binance" -> fetch_binance(resp)
      [] name = "nexo" -> fetch_nexo(resp)

\* The provider field the named adapter writes into its records.
ProviderName(name) ==
    CASE name = "lido" -> "Lido"
      [] name = "rocket_pool" -> "Rocket Pool"
      [] name = "kraken" -> "Kraken"
      [] name = "coinbase" -> CoinbaseCfg.provider
      [] name = "crypto_com" -> CryptoComCfg.provider
      [] name = "kucoin" -> KuCoinCfg.provider
      [] name = "binance" -> BinanceCfg.provider
      [] name = "nexo" -> NexoCfg.provider

(***************************************************************************)
(* collect_rates (lines 378-385).  records.extend(fetcher()) appends each  *)
(* record as the generator yields it; an exception that leaves the         *)
(* generator ends the extend and leaves the records appended so far in     *)
(* the list.                                                               *)
(***************************************************************************)
ListExtend(list, out) == list \o out.recs

(***************************************************************************)
(* _is_stablecoin_network and filter_low_risk (lines 441-449).             *)
(***************************************************************************)
\* The test as it would be without name.upper().
_is_stablecoin_network_cased(name) ==
    \E keyword \in STABLECOIN_KEYWORDS : StrContains(name, keyword)

_is_stablecoin_network(name) ==
    LET normalized == StrUpper(name) IN
    \E keyword \in STABLECOIN_KEYWORDS : StrContains(normalized, keyword)

IsLowRisk(record) == _is_stablecoin_network(record.network)

filter_low_risk(recs) == SelectSeq(recs, IsLowRisk)

(***************************************************************************)
(* The inputs of the model.                                                *)
(***************************************************************************)
\* A field that the entry does not hold (no JSON value).
Absent == [t |-> "absent", v |-> 0]
OptPair(key, val) == IF val.t = "absent" THEN <<>> ELSE <<KV(key, val)>>
SeqsUpTo(items, n) == UNION {[1..k -> items] : k \in 0..n}

NotANumber == JStr(S(<<"n", "/", "a">>))
Usdc == JStr(S(<<"u", "s", "d", "c">>))

\* What _normalize_percentage is called with.
RawValues ==
    {JFloat(n) : n \in -MaxNum..MaxNum}
    \cup {JInt(k) : k \in (-MaxNum \div Scale)..(MaxNum \div Scale)}
    \cup {JStr(FloatStr(FloatOf(n))) : n \in -MaxNum..MaxNum}
    \cup {JStr(IntStr(k)) : k \in (-MaxNum \div Scale)..(MaxNum \div Scale)}
    \cup {JStr(S(<<"0", ".", "1">>)), JStr(S(<<"0", ".", "3">>)),
          JStr(S(<<"-", "0", ".", "1">>)), JStr(S(<<"4", ".", "9", "9">>)),
          JStr(S(<<"1", "e", "-", "5">>)), JStr(S(<<"1", "e", "3", "0", "9">>)),
          JStr(S(<<"1", "e", "-", "4", "0", "0">>)),
          JStr(<<12288>> \o S(<<"1", ".", "5">>) \o <<8195, 133>>),
          JStr(<<1633>>), JStr(<<65297, 65298>>), JStr(<<1633, Ord["."], 2411>>),
          JStr(<<28>> \o S(<<"1">>)), JStr(S(<<"1">>) \o <<233>>)}
    \cup {JStr(S(<<"n", "a", "n">>)), JStr(S(<<"N", "a", "N">>)), JStr(S(<<"i", "n", "f">>)),
          JStr(S(<<"-", "i", "n", "f">>)), JStr(S(<<"I", "n", "f", "i", "n", "i", "t", "y">>)),
          JStr(S(<<" ", "1", ".", "5", " ">>)), JStr(S(<<"1", "e", "1">>)),
          JStr(S(<<"1", "_", "0">>)), JStr(S(<<"1", ".", "5", ".", "2">>))}
    \cup {JNull, JBool(TRUE), JBool(FALSE), JStr(<<>>), NotANumber, JHuge, JNaN,
          JInf(1), JInf(-1), JList(<<>>), JDict(<<>>)}

\* What _pick_first is called with.
PickKeys == {Key["apy"], Key["apr"], Key["rate"]}
PickVals == {Absent, JNull, JInt(0), JFloat(3), JStr(<<>>)}
PickMappings ==
    {JDict(OptPair(Key["apy"], a) \o OptPair(Key["apr"], b) \o OptPair(Key["rate"], c)) :
        a \in PickVals, b \in PickVals, c \in PickVals}
PickKeyLists == SeqsUpTo(PickKeys, MaxKeys)

\* The values a provider's entry holds at a rate field.
RateVals ==
    {JNull, JInt(0), JFloat(-2), JFloat(2), JInt(1), JFloat(6), JStr(S(<<"0">>)),
     JStr(S(<<"0", ".", "1">>)), JStr(S(<<"n", "a", "n">>)), JStr(S(<<"i", "n", "f">>)),
     NotANumber, JHuge, JNaN}
SecondVals == {Absent, JFloat(5)}
LabelVals == {Absent, Usdc}

\* The entries of a container: mappings with two rate aliases and a label,
\* two whose label is no string (a number, a list), and one entry that is
\* no mapping.
OddLabels == {JInt(3), JList(<<Usdc, JInt(1)>>)}
EntryDicts(k1, k2, lk) ==
    {JDict(OptPair(k1, r1) \o OptPair(k2, r2) \o OptPair(lk, l)) :
        r1 \in RateVals \cup {Absent}, r2 \in SecondVals, l \in LabelVals}
    \cup {JDict(<<KV(k1, JFloat(6)), KV(lk, l)>>) : l \in OddLabels}

KrakenEntries ==
    {JDict(OptPair(Key["apy"], r1) \o OptPair(Key["apr"], r2) \o OptPair(Key["reward_apr"], r3)) :
        r1 \in RateVals \cup {Absent}, r2 \in {Absent, JInt(0), JFloat(5)},
        r3 \in {Absent, JFloat(6)}}
    \cup {JDict(<<KV(Key["apr"], JFloat(6)), KV(Key["staking_asset"], l)>>) : l \in {Usdc, JFloat(6)}}

Entries(name) ==
    {JNull} \cup
    CASE name = "lido" -> EntryDicts(Key["apy"], Key["apr"], Key["displayName"])
      [] name = "kraken" -> KrakenEntries
      [] name = "coinbase" ->
            EntryDicts(CoinbaseCfg.rates[1], CoinbaseCfg.rates[2], CoinbaseCfg.labels[1])
      [] name = "crypto_com" ->
            EntryDicts(CryptoComCfg.rates[1], CryptoComCfg.rates[2], CryptoComCfg.labels[1])
      [] name = "kucoin" ->
            EntryDicts(KuCoinCfg.rates[1], KuCoinCfg.rates[2], KuCoinCfg.labels[1])
      [] name = "binance" ->
            EntryDicts(BinanceCfg.rates[1], BinanceCfg.rates[2], BinanceCfg.labels[1])
      [] name = "nexo" ->
            EntryDicts(NexoCfg.rates[1], NexoCfg.rates[2], NexoCfg.labels[1])
      [] OTHER -> {}

\* The keys of a dict-shaped container, in insertion order.  One network
\* name starts with a small u with diaeresis (252).
NetKeys(name) ==
    IF name = "kraken" THEN Keys(<<"DOT", "USDT.M", "ETH2.S", "ADA.S">>)
    ELSE <<Key["ethereum"], <<252>> \o S(<<"b", "e", "r">>), Key["polygon"],
           Key["solana"]>>

\* A dict-shaped container holding the given entries.
Keyed(name, entries) ==
    JDict([i \in 1..Len(entries) |-> KV(NetKeys(name)[i], entries[i])])

D1(key, val) == JDict(<<KV(key, val)>>)

\* The well-formed payloads of a provider: its container at its path.
Wrapped(name, entries) ==
    CASE name = "lido" -> {Keyed(name, entries), D1(Key["data"], Keyed(name, entries))}
      [] name = "kraken" -> {D1(Key["result"], Keyed(name, entries))}
      [] name = "coinbase" -> {D1(Key["data"], JList(entries))}
      [] name \in {"crypto_com", "kucoin"} -> {D1(Key["data"], D1(Key["items"], JList(entries)))}
      [] name = "binance" -> {D1(Key["data"], D1(Key["result"], JList(entries))),
                              D1(Key["data"], D1(Key["data"], JList(entries)))}
      [] name = "nexo" -> {D1(Key["data"], D1(Key["rates"], JList(entries)))}

RocketPoolBodies ==
    {D1(Key["data"], JDict(OptPair(Key["staking"], r1) \o OptPair(Key["total"], r2))) :
        r1 \in RateVals \cup {Absent}, r2 \in SecondVals}

\* Payloads that lack a container, or hold a value of another shape there.
OddBodies ==
    {JNull, JList(<<>>), JList(<<JFloat(4)>>), NotANumber, JDict(<<>>),
     D1(Key["data"], JNull), D1(Key["data"], JList(<<>>)), D1(Key["data"], JDict(<<>>)),
     D1(Key["data"], NotANumber), D1(Key["result"], JNull), D1(Key["result"], JList(<<>>)),
     D1(Key["data"], D1(Key["items"], JDict(<<>>))), D1(Key["data"], D1(Key["rates"], JNull)),
     D1(Key["data"], D1(Key["result"], D1(Key["apr"], JFloat(4)))),
     D1(Key["data"], D1(Key["data"], NotANumber))}

Bodies(name) ==
    OddBodies \cup
    IF name = "rocket_pool" THEN RocketPoolBodies
    ELSE UNION {Wrapped(name, es) : es \in SeqsUpTo(Entries(name), MaxEntries)}

Ok(body) == [status |-> "ok", body |-> body]
Failure(status) == [status |-> status, body |-> JNull]
Failures == {Failure(s) : s \in {"http_error", "invalid_json", "transport"}}

\* What the provider's endpoint may answer.
Responses(name) == {Ok(b) : b \in Bodies(name)} \cup Failures

\* The answers the aggregation loop meets: the endpoint unreachable, a
\* payload of the wrong shape, a payload with two valid entries around one
\* that is skipped, and the same payload with an entry whose rate is beyond
\* the range of a float in the middle.
RateKey(name) ==
    CASE name = "lido" -> Key["apy"]
      [] name = "kraken" -> Key["apr"]
      [] name = "coinbase" -> CoinbaseCfg.rates[1]
      [] name = "crypto_com" -> CryptoComCfg.rates[1]
      [] name = "kucoin" -> KuCoinCfg.rates[1]
      [] name = "binance" -> BinanceCfg.rates[1]
      [] name = "nexo" -> NexoCfg.rates[1]

Entry(name, rate) == D1(RateKey(name), rate)

CollectBodies(name) ==
    IF name = "rocket_pool"
    THEN {JList(<<>>), D1(Key["data"], JDict(<<>>)), D1(Key["data"], D1(Key["staking"], JFloat(6)))}
    ELSE {JList(<<>>)}
         \cup Wrapped(name, <<Entry(name, JFloat(2)), Entry(name, JNull),
                              Entry(name, JFloat(6))>>)
         \cup Wrapped(name, <<Entry(name, JFloat(2)), Entry(name, JHuge),
                              Entry(name, JFloat(6))>>)

CollectResponses(name) ==
    {Ok(b) : b \in CollectBodies(name)} \cup {Failure("transport")}

\* The records handed to filter_low_risk.  Some labels hold a character
\* outside ASCII: the dotless i (305), the long s (383), the sharp s (223),
\* the ligature st (64262), the t with diaeresis (7831) and the capital u
\* with diaeresis (220).
FilterLabels ==
    { S(<<"U", "S", "D", "C">>),
      S(<<"E", "t", "h", "e", "r", "e", "u", "m">>),
      S(<<"P", "o", "l", "y", "g", "o", "n", "-", "U", "S", "D", "T">>),
      S(<<"u", "s", "d", "c", ".", "e">>),
      S(<<"d", "a">>) \o <<305>>,
      S(<<"U", "S", "-", "D", "C">>),
      <<Ord["u"], 383>> \o S(<<"d", "c">>),
      <<223>> \o S(<<"u", "s", "d", "c">>),
      <<Ord["u"], 64262, Ord["c"]>>,
      S(<<"u", "s", "d">>) \o <<7831>>,
      <<220>> \o S(<<"S", "D", "C">>) }

FilterRecords ==
    {RateRecord(NexoCfg.provider, l, FloatOf(6), NexoCfg.metric, NexoCfg.url,
                JDict(<<>>)) : l \in FilterLabels}
    \cup {RateRecord(KuCoinCfg.provider, S(<<"U", "S", "D", "C">>), FloatOf(6),
                     KuCoinCfg.metric, KuCoinCfg.url, JDict(<<>>))}

(***************************************************************************)
(* States.  Each part of the program is "idle" (not exercised in this      *)
(* behaviour), waiting with its inputs drawn, or done.                     *)
(***************************************************************************)
NzPending == [k |-> "pending", f |-> NoFloat, exc |-> "none"]
NzIdle == [k |-> "idle", f |-> NoFloat, exc |-> "none"]
PfPending == [t |-> "pending", v |-> 0]
PfIdle == [t |-> "idle", v |-> 0]
AdPending == [recs |-> <<>>, exc |-> "pending"]
AdIdle == [recs |-> <<>>, exc |-> "idle"]

IdleNormalize == nzArg = JNull /\ nzRes = NzIdle
IdlePick == pfMap = JDict(<<>>) /\ pfKeys = <<>> /\ pfRes = PfIdle
IdleAdapters == adProv = "none" /\ adResp = Failure("transport") /\ adOut = AdIdle
IdleCollect ==
    /\ pc = "idle" /\ idx = 1 /\ records = <<>> /\ calls = <<>>
    /\ outcomes = <<>> /\ stderr = <<>>
IdleFilter == flGiven = <<>> /\ flArg = <<>> /\ flOut = <<>> /\ flState = "idle"


InitNormalize ==
    /\ nzArg \in RawValues /\ nzRes = NzPending
    /\ IdlePick /\ IdleAdapters /\ IdleCollect /\ IdleFilter

InitPick ==
    /\ pfMap \in PickMappings /\ pfKeys \in PickKeyLists /\ pfRes = PfPending
    /\ IdleNormalize /\ IdleAdapters /\ IdleCollect /\ IdleFilter

InitAdapters ==
    /\ adProv \in {PROVIDERS[i] : i \in 1..Len(PROVIDERS)}
    /\ adResp \in Responses(adProv)
    /\ adOut = AdPending
    /\ IdleNormalize /\ IdlePick /\ IdleCollect /\ IdleFilter

InitCollect ==
    /\ pc = "loop" /\ idx = 1 /\ records = <<>> /\ calls = <<>>
    /\ outcomes = <<>> /\ stderr = <<>>
    /\ IdleNormalize /\ IdlePick /\ IdleAdapters /\ IdleFilter

InitFilter ==
    /\ flGiven \in SeqsUpTo(FilterRecords, MaxRecs)
    /\ flArg = flGiven /\ flOut = <<>> /\ flState = "ready"
    /\ IdleNormalize /\ IdlePick /\ IdleAdapters /\ IdleCollect

Init == InitNormalize \/ InitPick \/ InitAdapters \/ InitCollect \/ InitFilter

(***************************************************************************)
(* Actions.                                                                *)
(***************************************************************************)
\* One call of _normalize_percentage.
NormalizeCall ==
    /\ nzRes = NzPending
    /\ nzRes' = _normalize_percentage(nzArg)
    /\ UNCHANGED <<nzArg, pfVars, adVars, clVars, flVars>>

\* One call of _pick_first.
PickFirstCall ==
    /\ pfRes = PfPending
    /\ pfRes' = _pick_first(pfMap, pfKeys)
    /\ UNCHANGED <<pfMap, pfKeys, nzVars, adVars, clVars, flVars>>

\* One full run of an adapter's generator on the response its endpoint gave.
FetchLido ==
    /\ adProv = "lido"
    /\ adOut = AdPending
    /\ adOut' = fetch_lido(adResp)
    /\ UNCHANGED <<adProv, adResp, nzVars, pfVars, clVars, flVars>>

FetchRocketPool ==
    /\ adProv = "rocket_pool"
    /\ adOut = AdPending
    /\ adOut' = fetch_rocket_pool(adResp)
    /\ UNCHANGED <<adProv, adResp, nzVars, pfVars, clVars, flVars>>

FetchKraken ==
    /\ adProv = "kraken"
    /\ adOut = AdPending
    /\ adOut' = fetch_kraken(adResp)
    /\ UNCHANGED <<adProv, adResp, nzVars, pfVars, clVars, flVars>>

FetchCoinbase ==
    /\ adProv = "coinbase"
    /\ adOut = AdPending
    /\ adOut' = fetch_coinbase(adResp)
    /\ UNCHANGED <<adProv, adResp, nzVars, pfVars, clVars, flVars>>

FetchCryptoCom ==
    /\ adProv = "crypto_com"
    /\ adOut = AdPending
    /\ adOut' = fetch_crypto_com(adResp)
    /\ UNCHANGED <<adProv, adResp, nzVars, pfVars, clVars, flVars>>

FetchKuCoin ==
    /\ adProv = "kucoin"
    /\ adOut = AdPending
    /\ adOut' = fetch_kucoin(adResp)
    /\ UNCHANGED <<adProv, adResp, nzVars, pfVars, clVars, flVars>>

FetchBinance ==
    /\ adProv = "binance"
    /\ adOut = AdPending
    /\ adOut' = fetch_binance(adResp)
    /\ UNCHANGED <<adProv, adResp, nzVars, pfVars, clVars, flVars>>

FetchNexo ==
    /\ adProv = "nexo"
    /\ adOut = AdPending
    /\ adOut' = fetch_nexo(adResp)
    /\ UNCHANGED <<adProv, adResp, nzVars, pfVars, clVars, flVars>>

\* One iteration of collect_rates' loop (lines 380-384): the provider's
\* endpoint answers, the generator runs inside records.extend, and an
\* exception is caught and reported.
Extended(name, out) ==
    /\ records' = ListExtend(records, out)
    /\ calls' = Append(calls, name)
    /\ outcomes' = Append(outcomes, out)
    /\ stderr' = IF out.exc # "none" THEN Append(stderr, name) ELSE stderr

CollectStep ==
    /\ pc = "loop"
    /\ idx <= Len(PROVIDERS)
    /\ \E resp \in CollectResponses(PROVIDERS[idx]) :
         Extended(PROVIDERS[idx], RunFetcher(PROVIDERS[idx], resp))
    /\ idx' = idx + 1
    /\ pc' = "loop"
    /\ UNCHANGED <<nzVars, pfVars, adVars, flVars>>

\* return records (line 385)
CollectReturn ==
    /\ pc = "loop"
    /\ idx > Len(PROVIDERS)
    /\ pc' = "done"
    /\ UNCHANGED <<idx, records, calls, outcomes, stderr, nzVars, pfVars, adVars, flVars>>

\* filter_low_risk(records): the comprehension builds a new list and
\* writes nothing into its argument.
FilterLowRisk ==
    /\ flState = "ready"
    /\ flOut' = filter_low_risk(flArg)
    /\ flArg' = flArg
    /\ flState' = "filtered"
    /\ UNCHANGED <<flGiven, nzVars, pfVars, adVars, clVars>>

\* filter_low_risk called on the list a first call returned.
FilterAgain ==
    /\ flState = "filtered"
    /\ flGiven' = flOut
    /\ flArg' = flOut
    /\ flOut' = filter_low_risk(flOut)
    /\ flState' = "refiltered"
    /\ UNCHANGED <<nzVars, pfVars, adVars, clVars>>

NextAdapters ==
    \/ FetchLido \/ FetchRocketPool \/ FetchKraken \/ FetchCoinbase
    \/ FetchCryptoCom \/ FetchKuCoin \/ FetchBinance \/ FetchNexo
NextCollect == CollectStep \/ CollectReturn
NextFilter == FilterLowRisk \/ FilterAgain

Next ==
    \/ NormalizeCall \/ PickFirstCall
    \/ NextAdapters \/ NextCollect \/ NextFilter

Spec == Init /\ [][Next]_vars
SpecNormalize == InitNormalize /\ [][NormalizeCall]_vars
SpecPick == InitPick /\ [][PickFirstCall]_vars
SpecAdapters == InitAdapters /\ [][NextAdapters]_vars
SpecCollect == InitCollect /\ [][NextCollect]_vars
SpecFilter == InitFilter /\ [][NextFilter]_vars

(***************************************************************************)
(* Properties.                                                             *)
(***************************************************************************)
\* A float that is finite.
Finite(f) == ~f.nan /\ f.inf = 0
\* A value that float() takes to a finite number: a number, or a string
\* that holds one.
IsNumber(j) == PyFloat(j).exc = "none" /\ Finite(PyFloat(j).f)
\* The number it denotes.
NumberOf(j) == PyFloat(j).f
\* A value that float() rejects: it is no number and holds none.
NotNumeric(j) == PyFloat(j).exc \in {"TypeError", "ValueError"}
\* A float that is zero or negative.  nan, which compares false with
\* everything, is not counted as one.
NonPositive(f) ==
    ~f.nan /\ (f.inf < 0 \/ (f.inf = 0 /\ (f.digits = <<>> \/ f.sign < 0)))
\* A finite float that is at most 1: zero, negative, a fraction 0.d1d2...
\* times a power of ten that is not positive, or 1 itself.
AtMostOne(f) ==
    \/ NonPositive(f)
    \/ f.exp <= 0
    \/ f.exp = 1 /\ f.digits = <<1>>
\* v * 100, the product of floats.
TimesHundred(f) == FloatTimes(f, Hundred)

\* The positions of `keys` whose key the mapping holds.
PresentAt(mapping, keys) == {i \in 1..Len(keys) : DictHas(mapping, keys[i])}
Earliest(positions) == FirstOf(positions)
\* The value under the earliest key of `keys` that the mapping holds.
FirstPresent(mapping, keys) ==
    IF PresentAt(mapping, keys) = {} THEN Absent
    ELSE DictAt(mapping, keys[Earliest(PresentAt(mapping, keys))])

\* C4: for every raw value v, _normalize_percentage(v) does not raise, is
\* None when v is None, not a number, zero or negative, is v * 100 when
\* 0 < v <= 1 and v when v > 1, and is never a non-positive value.
C4_NormalizeTotal ==
    nzRes.k \notin {"pending", "idle"} =>
        /\ nzRes.k # "raise"
        /\ nzRes.k = "val" => ~NonPositive(nzRes.f)
        /\ NotNumeric(nzArg) => nzRes = NzNone
        /\ IsNumber(nzArg) /\ NonPositive(NumberOf(nzArg)) => nzRes = NzNone
        /\ IsNumber(nzArg) /\ ~NonPositive(NumberOf(nzArg))
              /\ AtMostOne(NumberOf(nzArg))
              => nzRes = NzVal(TimesHundred(NumberOf(nzArg)))
        /\ IsNumber(nzArg) /\ ~AtMostOne(NumberOf(nzArg))
              => nzRes = NzVal(NumberOf(nzArg))

\* C5 as claimed: _pick_first returns the value of the earliest key of k
\* present in m, and its result is None if and only if no key of k is
\* present in m.
C5_AbsentIffNoKey ==
    pfRes.t \notin {"pending", "idle"} =>
        /\ PresentAt(pfMap, pfKeys) # {} => pfRes = FirstPresent(pfMap, pfKeys)
        /\ pfRes = JNull <=> PresentAt(pfMap, pfKeys) = {}

\* C5 as amended: _pick_first returns the value of the earliest key of k
\* present in m (presence, not truthiness), and None when no key of k is
\* present; so its result is None exactly when no key is present or the
\* earliest present key is mapped to None.
C5_PickFirst ==
    pfRes.t \notin {"pending", "idle"} =>
        /\ PresentAt(pfMap, pfKeys) # {} => pfRes = FirstPresent(pfMap, pfKeys)
        /\ PresentAt(pfMap, pfKeys) = {} => pfRes = JNull
        /\ pfRes = JNull <=> \/ PresentAt(pfMap, pfKeys) = {}
                             \/ FirstPresent(pfMap, pfKeys) = JNull

\* A call whose first key is missing and whose second key is mapped to 0:
\* the 0 is returned.
C5_Witness ==
    /\ Len(pfKeys) = 2
    /\ ~DictHas(pfMap, pfKeys[1])
    /\ DictHas(pfMap, pfKeys[2])
    /\ \E key \in PickKeys \ {pfKeys[1], pfKeys[2]} :
           DictHas(pfMap, key) /\ DictAt(pfMap, key) = JFloat(3)
    /\ pfRes = JInt(0)

\* The labels drawn, each with its upper-case form as str.upper() spells
\* it: the dotless i (305) becomes I, the long s (383) S, the sharp s (223)
\* SS, the ligature st (64262) ST, the t with diaeresis (7831) T and a
\* combining diaeresis (776); the capital u with diaeresis (220) stays.
LabelUpper ==
    { <<S(<<"U", "S", "D", "C">>), S(<<"U", "S", "D", "C">>)>>,
      <<S(<<"E", "t", "h", "e", "r", "e", "u", "m">>),
        S(<<"E", "T", "H", "E", "R", "E", "U", "M">>)>>,
      <<S(<<"P", "o", "l", "y", "g", "o", "n", "-", "U", "S", "D", "T">>),
        S(<<"P", "O", "L", "Y", "G", "O", "N", "-", "U", "S", "D", "T">>)>>,
      <<S(<<"u", "s", "d", "c", ".", "e">>), S(<<"U", "S", "D", "C", ".", "E">>)>>,
      <<S(<<"d", "a">>) \o <<305>>, S(<<"D", "A", "I">>)>>,
      <<S(<<"U", "S", "-", "D", "C">>), S(<<"U", "S", "-", "D", "C">>)>>,
      <<<<Ord["u"], 383>> \o S(<<"d", "c">>), S(<<"U", "S", "D", "C">>)>>,
      <<<<223>> \o S(<<"u", "s", "d", "c">>), S(<<"S", "S", "U", "S", "D", "C">>)>>,
      <<<<Ord["u"], 64262, Ord["c"]>>, S(<<"U", "S", "T", "C">>)>>,
      <<S(<<"u", "s", "d">>) \o <<7831>>, S(<<"U", "S", "D", "T">>) \o <<776>>>>,
      <<<<220>> \o S(<<"S", "D", "C">>), <<220>> \o S(<<"S", "D", "C">>)>> }
UpperSpelled(label) == (CHOOSE pair \in LabelUpper : pair[1] = label)[2]
\* The upper-case form holds the keyword at the offset.
HoldsAt(upper, kw, off) ==
    /\ off + Len(kw) <= Len(upper)
    /\ \A j \in 1..Len(kw) : upper[off + j] = kw[j]
\* The upper-case form holds one of the stablecoin keywords at some offset.
NamesKeyword(upper) ==
    \E kw \in STABLECOIN_KEYWORDS :
        \E off \in 0..Len(upper) : HoldsAt(upper, kw, off)
\* The label, upper-cased, holds one of the stablecoin keywords.
NamesStablecoin(label) == NamesKeyword(UpperSpelled(label))
KeptAt(recs) == {i \in 1..Len(recs) : NamesStablecoin(recs[i].network)}
\* The position in recs of the n-th kept record.
NthOf(kept, n) == CHOOSE i \in kept : Cardinality({j \in kept : j < i}) = n - 1
NthKept(recs, n) == NthOf(KeptAt(recs), n)

\* C6: filter_low_risk returns exactly the records whose network label,
\* upper-cased, contains a stablecoin keyword, in their original order; it
\* leaves its argument as it was; and filtering a filtered list returns
\* that list.
C6_FilterLowRisk ==
    flState \in {"filtered", "refiltered"} =>
        /\ Len(flOut) = Cardinality(KeptAt(flGiven))
        /\ \A n \in 1..Len(flOut) : flOut[n] = flGiven[NthKept(flGiven, n)]
        /\ flArg = flGiven
        /\ flState = "refiltered" => flOut = flGiven

\* A second filtering, of the two records a first one kept; one of them
\* has a label that names a keyword only once its long s is upper-cased.
C6_Witness ==
    /\ flState = "refiltered"
    /\ Len(flOut) = 2
    /\ flOut[1].network = <<Ord["u"], 383>> \o S(<<"d", "c">>)
    /\ flOut[2].network = S(<<"P", "o", "l", "y", "g", "o", "n", "-", "U", "S", "D", "T">>)

\* The adapter has run on a decoded payload.
AdRan == adOut.exc \notin {"pending", "idle"} /\ adResp.status = "ok"

\* C3: every record an adapter emits has a strictly positive rate.
C3_PositiveRates ==
    adOut.exc \notin {"pending", "idle"} =>
        \A i \in 1..Len(adOut.recs) : ~NonPositive(adOut.recs[i].rate)

\* The provider's container is at its path and of its shape (the table of
\* the adapters: data or root for Lido, data for Rocket Pool and Coinbase,
\* result for Kraken, data.items, data.result or data.data, data.rates).
WellShaped(name, body) ==
    LET data == GetIfDict(body, Key["data"]) IN
    CASE name = "lido" -> IsDict(body)
      [] name = "rocket_pool" -> IsDict(data)
      [] name = "kraken" -> IsDict(GetIfDict(body, Key["result"]))
      [] name = "coinbase" -> IsList(data)
      [] name \in {"crypto_com", "kucoin"} -> IsList(GetIfDict(data, Key["items"]))
      [] name = "binance" ->
            IsList(GetIfDict(data, Key["result"])) \/ IsList(GetIfDict(data, Key["data"]))
      [] name = "nexo" -> IsList(GetIfDict(data, Key["rates"]))

\* C7: an adapter whose payload lacks the container, or holds a value of
\* another shape there, fails with RateFetchError.
C7_WrongShapeRaises ==
    AdRan /\ ~WellShaped(adProv, adResp.body) => adOut.exc = "RateFetchError"

\* The entries of a located container, in order.
Values(container) ==
    IF IsDict(container) THEN [i \in 1..Len(container.v) |-> container.v[i].val]
    ELSE container.v
ContainerOf(name, body) ==
    LET data == GetIfDict(body, Key["data"]) IN
    CASE name = "lido" -> IF Truthy(data) THEN data ELSE body
      [] name = "kraken" -> GetIfDict(body, Key["result"])
      [] name = "coinbase" -> data
      [] name \in {"crypto_com", "kucoin"} -> GetIfDict(data, Key["items"])
      [] name = "binance" ->
            IF IsDict(data) /\ DictHas(data, Key["result"]) THEN GetIfDict(data, Key["result"])
            ELSE GetIfDict(data, Key["data"])
      [] name = "nexo" -> GetIfDict(data, Key["rates"])

\* The adapter found its container: a dict for Lido and Kraken, a list for
\* the others.
Located(name, body) ==
    /\ IsDict(body)
    /\ IF name \in {"lido", "kraken"} THEN IsDict(ContainerOf(name, body))
       ELSE IsList(ContainerOf(name, body))

\* The rate aliases of a provider, in priority order.
RateAliases(name) ==
    CASE name = "lido" -> Keys(<<"apy", "apr">>)
      [] name = "kraken" -> Keys(<<"apy", "apr", "reward_apr">>)
      [] name = "coinbase" -> CoinbaseCfg.rates
      [] name = "crypto_com" -> CryptoComCfg.rates
      [] name = "kucoin" -> KuCoinCfg.rates
      [] name = "binance" -> BinanceCfg.rates
      [] name = "nexo" -> NexoCfg.rates

\* An entry that is a mapping whose rate is a positive number.
ValidEntry(name, entry) ==
    /\ IsDict(entry)
    /\ LET r == FirstPresent(entry, RateAliases(name)) IN
       IsNumber(r) /\ ~NonPositive(NumberOf(r))

\* C8: in an adapter whose container was located, a malformed entry is
\* skipped: the call does not fail, and every valid entry of the payload is
\* still emitted.
C8_MalformedEntrySkipped ==
    AdRan /\ adProv # "rocket_pool" /\ Located(adProv, adResp.body) =>
        LET entries == Values(ContainerOf(adProv, adResp.body)) IN
        /\ adOut.exc = "none"
        /\ Len(adOut.recs) >=
              Cardinality({i \in 1..Len(entries) : ValidEntry(adProv, entries[i])})

\* C9: a Kraken entry whose first present field among apy, apr, reward_apr
\* holds 0 yields no record.
C9_KrakenZeroFiltered ==
    AdRan /\ adProv = "kraken" /\ Located(adProv, adResp.body) =>
        LET entries == Values(ContainerOf(adProv, adResp.body)) IN
        \A i \in 1..Len(entries) :
            IsDict(entries[i])
            /\ FirstPresent(entries[i], RateAliases("kraken")) \in {JInt(0), JFloat(0)}
            => \A j \in 1..Len(adOut.recs) : adOut.recs[j].raw # entries[i]

\* The records of the providers that ran to completion, concatenated.
RECURSIVE Succeeded(_, _)
Succeeded(outs, i) ==
    IF i > Len(outs) THEN <<>>
    ELSE (IF outs[i].exc = "none" THEN outs[i].recs ELSE <<>>) \o Succeeded(outs, i + 1)

\* C1: collect_rates invokes every provider once, in registration order,
\* whichever adapters raise, and returns a list; when all providers fail
\* the list is empty.
C1_CollectIsolatesFailures ==
    /\ pc \in {"idle", "loop", "done"}
    /\ pc = "done" =>
          /\ calls = PROVIDERS
          /\ (\A i \in 1..Len(outcomes) : outcomes[i].exc # "none") => records = <<>>

\* C2: the returned list is the concatenation, in registration order, of
\* the records of the providers that succeeded.
C2_ConcatOfSucceeded ==
    pc = "done" => records = Succeeded(outcomes, 1)

\* C10: the returned list holds no record of a provider whose adapter
\* raised.
C10_AllOrNothing ==
    pc = "done" =>
        \A i \in 1..Len(outcomes) :
            outcomes[i].exc # "none" =>
                \A j \in 1..Len(records) :
                    records[j].provider # ProviderName(calls[i])

============================================================================
